---- MODULE Spec2Model ----
(***************************************************************************)
(* Model of the suggestion application engine of ai-refactor-tutor:        *)
(* POST /api/apply (src/src/app/api/apply/route.ts, second listing, lines  *)
(* 247-465, and the later revision of the same handler kept in             *)
(* src/unnamed/part_004).                                                  *)
(*                                                                         *)
(* The handler parses the request's code with @babel/parser, walks the     *)
(* tree with @babel/traverse (one "enter" callback per node, pre-order),   *)
(* tries the rule selected by suggestion.type and then the regular         *)
(* expression fallback on suggestion.suggestion, and regenerates the text  *)
(* with @babel/generator when a rule fired.                                *)
(*                                                                         *)
(* A syntax tree is a sequence of node records; a node's identity is its   *)
(* index.  Source text is modelled by the tree it denotes together with    *)
(* its layout (white space, comments): the parser forgets the layout, the  *)
(* generator always emits its own canonical layout.                        *)
(***************************************************************************)
EXTENDS Integers, Sequences, FiniteSets, TLC

\* ------------------------------------------------------------------ bounds

\* Largest number of top-level statements of a submitted program.
MaxStmts == 2

\* ------------------------------------------------------------- syntax tree

\* The value of an absent key, an absent child or an unresolved binding.
None == "<none>"

Node(type, name, op, parent, children) ==
  [type |-> type, name |-> name, op |-> op, parent |-> parent, children |-> children]

\* A statement is written as a fragment: a sequence of nodes whose indices are
\* relative to the fragment (1 is its root, parent 0 is the enclosing node).
Relocate(frag, off, par) ==
  [i \in 1..Len(frag) |->
     [frag[i] EXCEPT !.parent = IF @ = 0 THEN par ELSE @ + off,
                     !.children = [k \in 1..Len(@) |-> @[k] + off]]]

\* kind name = 1;
DeclNum(kind, name) ==
  << Node("VariableDeclaration", "", kind, 0, <<2>>),
     Node("VariableDeclarator", "", "", 1, <<3, 4>>),
     Node("Identifier", name, "", 2, <<>>),
     Node("NumericLiteral", "1", "", 2, <<>>) >>

\* kind first = 1, second = 1;
DeclTwo(kind, first, second) ==
  << Node("VariableDeclaration", "", kind, 0, <<2, 5>>),
     Node("VariableDeclarator", "", "", 1, <<3, 4>>),
     Node("Identifier", first, "", 2, <<>>),
     Node("NumericLiteral", "1", "", 2, <<>>),
     Node("VariableDeclarator", "", "", 1, <<6, 7>>),
     Node("Identifier", second, "", 5, <<>>),
     Node("NumericLiteral", "1", "", 5, <<>>) >>

\* kind name = { key: 1 };
DeclObj(kind, name, key) ==
  << Node("VariableDeclaration", "", kind, 0, <<2>>),
     Node("VariableDeclarator", "", "", 1, <<3, 4>>),
     Node("Identifier", name, "", 2, <<>>),
     Node("ObjectExpression", "", "", 2, <<5>>),
     Node("ObjectProperty", "", "", 4, <<6, 7>>),
     Node("Identifier", key, "", 5, <<>>),
     Node("NumericLiteral", "1", "", 5, <<>>) >>

\* An operand: a string literal, an identifier or a property access base.prop.
Str(v) == [kind |-> "str", v |-> v, prop |-> ""]
Id(v) == [kind |-> "id", v |-> v, prop |-> ""]
Member(base, prop) == [kind |-> "member", v |-> base, prop |-> prop]

\* The nodes of an operand placed at index at under parent.
Operand(o, at, parent) ==
  CASE o.kind = "str" -> << Node("StringLiteral", o.v, "", parent, <<>>) >>
    [] o.kind = "id" -> << Node("Identifier", o.v, "", parent, <<>>) >>
    [] o.kind = "member" ->
         << Node("MemberExpression", "", "", parent, <<at + 1, at + 2>>),
            Node("Identifier", o.v, "", at, <<>>),
            Node("Identifier", o.prop, "", at, <<>>) >>

\* target = left op 1;
AssignBin(target, left, op) ==
  LET l == Operand(left, 5, 4)
  IN << Node("ExpressionStatement", "", "", 0, <<2>>),
        Node("AssignmentExpression", "", "=", 1, <<3, 4>>),
        Node("Identifier", target, "", 2, <<>>),
        Node("BinaryExpression", "", op, 2, <<5, 5 + Len(l)>>) >>
     \o l \o << Node("NumericLiteral", "1", "", 4, <<>>) >>

\* obj.fn(l op r);
CallBin(obj, fn, l, op, r) ==
  LET lo == Operand(l, 7, 6)
      ro == Operand(r, 7 + Len(lo), 6)
  IN << Node("ExpressionStatement", "", "", 0, <<2>>),
        Node("CallExpression", "", "", 1, <<3, 6>>),
        Node("MemberExpression", "", "", 2, <<4, 5>>),
        Node("Identifier", obj, "", 3, <<>>),
        Node("Identifier", fn, "", 3, <<>>),
        Node("BinaryExpression", "", op, 2, <<7, 7 + Len(lo)>>) >>
     \o lo \o ro

\* function name() { inner }
FuncDecl(name, inner) ==
  << Node("FunctionDeclaration", "", "", 0, <<2, 3>>),
     Node("Identifier", name, "", 1, <<>>),
     Node("BlockStatement", "", "", 1, <<4>>) >>
  \o Relocate(inner, 3, 3)

\* { inner }
Block(inner) ==
  << Node("BlockStatement", "", "", 0, <<2>>) >> \o Relocate(inner, 1, 1)

\* The statements submitted programs are made of.
Statements ==
  { DeclNum("let", "a"),                                 \* let a = 1;
    DeclObj("const", "b", "a"),                          \* const b = { a: 1 };
    AssignBin("a", Id("a"), "+"),                        \* a = a + 1;
    CallBin("console", "log", Str("s"), "+", Id("a")),   \* console.log("s" + a);
    CallBin("console", "log", Id("a"), "+", Str("s")),   \* console.log(a + "s");
    CallBin("console", "log", Str("${"), "+", Id("a")),  \* console.log("${" + a);
    CallBin("console", "log", Member("b", "a"), "+", Id("a")),  \* console.log(b.a + a);
    FuncDecl("f", AssignBin("a", Id("b"), "-")),         \* function f() { a = b - 1; }
    Block(DeclNum("let", "a")) }                         \* { let a = 1; }

RECURSIVE SeqsUpTo(_, _)
SeqsUpTo(S, n) ==
  IF n = 0 THEN { <<>> }
  ELSE LET shorter == SeqsUpTo(S, n - 1)
       IN shorter \cup { Append(p, s) : p \in { q \in shorter : Len(q) = n - 1 }, s \in S }

\* A program: 1..MaxStmts statements.
Programs == SeqsUpTo(Statements, MaxStmts) \ { <<>> }

\* The tree of a program: node 1 is Program, the statements follow in pre-order.
RECURSIVE BuildFrom(_, _, _)
BuildFrom(prog, k, acc) ==
  IF k > Len(prog) THEN acc
  ELSE LET root == Len(acc) + 1
           acc1 == [acc EXCEPT ![1].children = Append(@, root)]
       IN BuildFrom(prog, k + 1, acc1 \o Relocate(prog[k], Len(acc), 1))

Build(prog) == BuildFrom(prog, 1, << Node("Program", "", "", 0, <<>>) >>)

\* --------------------------------------------------------------- navigation

IsType(ast, n, t) == n # 0 /\ ast[n].type = t

\* The k-th child of n, 0 when n has no such child (an absent argument).
Child(ast, n, k) == IF n # 0 /\ k <= Len(ast[n].children) THEN ast[n].children[k] ELSE 0

\* The position of n among its parent's children.
SlotOf(ast, n) ==
  LET kids == ast[ast[n].parent].children
  IN CHOOSE k \in 1..Len(kids) : kids[k] = n

\* t.isIdentifier(node, { name })
IsIdentifierNamed(ast, n, name) == IsType(ast, n, "Identifier") /\ ast[n].name = name

\* Whether n lies in the subtree rooted at r.
RECURSIVE InSubtree(_, _, _)
InSubtree(ast, n, r) ==
  IF n = r THEN TRUE
  ELSE IF n = 0 \/ ast[n].parent = 0 THEN FALSE
  ELSE InSubtree(ast, ast[n].parent, r)

\* @babel/traverse visits a node, then its children in visitor-key order.
RECURSIVE PreOrderFrom(_, _), PreOrderAll(_, _, _)
PreOrderFrom(ast, n) == <<n>> \o PreOrderAll(ast, ast[n].children, 1)
PreOrderAll(ast, kids, k) ==
  IF k > Len(kids) THEN <<>>
  ELSE PreOrderFrom(ast, kids[k]) \o PreOrderAll(ast, kids, k + 1)

PreOrder(ast) == PreOrderFrom(ast, 1)

\* path.findParent(p => p.isVariableDeclaration()): the nearest proper ancestor
\* of that type, 0 when there is none.
RECURSIVE FindParent(_, _, _)
FindParent(ast, n, t) ==
  LET p == ast[n].parent
  IN IF p = 0 THEN 0
     ELSE IF ast[p].type = t THEN p
     ELSE FindParent(ast, p, t)

\* ------------------------------------------------------------------- scopes
\* @babel/traverse's Scope, as the handler uses it: path.scope, scope.parent,
\* hasBinding, getBinding, binding.constant, binding.path.type and rename.

\* Names that hasBinding reports although no binding exists (Scope.globals).
Globals == { "Object" }

\* Nodes that open a scope; a function's body block shares the function's scope.
IsScope(ast, n) ==
  \/ ast[n].type \in { "Program", "FunctionDeclaration" }
  \/ ast[n].type = "BlockStatement" /\ ~IsType(ast, ast[n].parent, "FunctionDeclaration")

\* path.scope: the scope of the nearest scope-opening node, n included.
RECURSIVE ScopeOf(_, _)
ScopeOf(ast, n) == IF IsScope(ast, n) THEN n ELSE ScopeOf(ast, ast[n].parent)

\* scope.parent, 0 for the program scope.
ScopeParent(ast, s) == IF ast[s].parent = 0 THEN 0 ELSE ScopeOf(ast, ast[s].parent)

\* The nodes that declare a binding (binding.path): declarators and functions.
IsDeclaration(ast, n) == ast[n].type \in { "VariableDeclarator", "FunctionDeclaration" }

\* binding.identifier and its name.
BindingIdent(ast, d) == ast[d].children[1]
BindingName(ast, d) == ast[BindingIdent(ast, d)].name

\* binding.kind: let/const of the enclosing declaration, "hoisted" for a function.
BindingKind(ast, d) ==
  IF ast[d].type = "FunctionDeclaration" THEN "hoisted" ELSE ast[ast[d].parent].op

\* binding.scope: let, const and function declarations bind in the enclosing
\* block scope (a function's name binds outside the function's own scope).
BindingScope(ast, d) == ScopeOf(ast, ast[d].parent)

Min(S) == CHOOSE x \in S : \A y \in S : x <= y

\* scope.getOwnBinding(name): the first declaration registered, 0 when none.
OwnBinding(ast, s, name) ==
  LET ds == { d \in DOMAIN ast :
                /\ IsDeclaration(ast, d)
                /\ BindingName(ast, d) = name
                /\ BindingScope(ast, d) = s }
  IN IF ds = {} THEN 0 ELSE Min(ds)

\* scope.getBinding(name): walks up the scope chain; 0 when unbound.
RECURSIVE GetBinding(_, _, _)
GetBinding(ast, s, name) ==
  LET own == OwnBinding(ast, s, name)
  IN IF own # 0 THEN own
     ELSE IF ScopeParent(ast, s) = 0 THEN 0
     ELSE GetBinding(ast, ScopeParent(ast, s), name)

\* scope.hasBinding(name): a binding up the chain, or a known global.
HasBinding(ast, s, name) == GetBinding(ast, s, name) # 0 \/ name \in Globals

\* The scope crawl at the start of the traversal throws "Duplicate declaration"
\* when a scope declares a name twice and a let or const is involved.
DuplicateDeclaration(ast) ==
  \E d1, d2 \in DOMAIN ast :
    /\ d1 < d2
    /\ IsDeclaration(ast, d1) /\ IsDeclaration(ast, d2)
    /\ BindingName(ast, d1) = BindingName(ast, d2)
    /\ BindingScope(ast, d1) = BindingScope(ast, d2)
    /\ (BindingKind(ast, d2) = "let" \/ BindingKind(ast, d1) \in { "let", "const" })

\* A constant violation of binding d: an assignment (any operator) whose target
\* identifier resolves to d, or a repeated function declaration of the name.
IsViolationOf(ast, n, d) ==
  \/ /\ ast[n].type = "AssignmentExpression"
     /\ IsIdentifierNamed(ast, Child(ast, n, 1), BindingName(ast, d))
     /\ GetBinding(ast, ScopeOf(ast, n), BindingName(ast, d)) = d
  \/ /\ IsDeclaration(ast, n) /\ n > d
     /\ BindingName(ast, n) = BindingName(ast, d)
     /\ BindingScope(ast, n) = BindingScope(ast, d)

\* binding.constant
Constant(ast, d) == ~\E n \in DOMAIN ast : IsViolationOf(ast, n, d)

\* An identifier the renamer may touch: a reference, an assignment target or a
\* declared name, never a property key or a property-access name.
Renamable(ast, n) ==
  /\ ast[n].type = "Identifier"
  /\ ~(IsType(ast, ast[n].parent, "MemberExpression") /\ SlotOf(ast, n) = 2)
  /\ ~(IsType(ast, ast[n].parent, "ObjectProperty") /\ SlotOf(ast, n) = 1)

\* The renamer walks the binding's scope block and skips every nested scope in
\* which the name resolves to another binding.
RECURSIVE NotShadowed(_, _, _, _, _)
NotShadowed(ast, n, block, name, d) ==
  IF n = block THEN TRUE
  ELSE /\ IsScope(ast, n) => GetBinding(ast, n, name) = d
       /\ NotShadowed(ast, ast[n].parent, block, name, d)

InRenameRegion(ast, n, d, name) ==
  LET block == BindingScope(ast, d)
  IN /\ InSubtree(ast, n, block)
     /\ n # block
     /\ ast[n].parent # block \/ ~IsType(ast, block, "FunctionDeclaration") \/ SlotOf(ast, n) # 1
     /\ NotShadowed(ast, n, block, name, d)

\* A rename by text: every identifier spelled oldName takes newName.
RenameEveryOccurrence(ast, s, oldName, newName) ==
  [n \in DOMAIN ast |->
     IF ast[n].type = "Identifier" /\ ast[n].name = oldName
     THEN [ast[n] EXCEPT !.name = newName]
     ELSE ast[n]]

\* scope.rename(oldName, newName): nothing when oldName has no binding from
\* scope s; otherwise the binding's identifier and every renamable identifier of
\* that name in the region take newName.  It never looks at newName's bindings.
Rename(ast, s, oldName, newName) ==
  LET d == GetBinding(ast, s, oldName)
  IN IF d = 0 THEN ast
     ELSE [n \in DOMAIN ast |->
             IF \/ n = BindingIdent(ast, d)
                \/ /\ Renamable(ast, n)
                   /\ ast[n].name = oldName
                   /\ InRenameRegion(ast, n, d, oldName)
             THEN [ast[n] EXCEPT !.name = newName]
             ELSE ast[n]]

\* -------------------------------------------------------------- suggestions

\* A params value: a string, or a value of another type.
StrVal(v) == [t |-> "string", v |-> v]
NumVal(v) == [t |-> "number", v |-> v]

\* getParam without the typeof test: whatever value the key has.
GetParamOfAnyType(params, key) ==
  IF key \in DOMAIN params /\ params[key].t # "absent" THEN params[key].v ELSE None

\* getParam(params, key): the value when params has the key with a string
\* value, undefined (None) otherwise.
GetParam(params, key) ==
  IF key \in DOMAIN params /\ params[key].t = "string" THEN params[key].v ELSE None

\* JavaScript truthiness of a getParam result: undefined and "" are falsy.
Truthy(v) == v # None /\ v # ""

\* The free text of a suggestion is a sequence of tokens separated by single
\* blanks: a bare word, or a quoted phrase '...' given by its lexemes.  A
\* suggestion without the field has defined = FALSE.
Text(tokens) == [defined |-> TRUE, tokens |-> tokens]
NoText == [defined |-> FALSE, tokens |-> <<>>]
Word(w) == [q |-> FALSE, lex |-> <<w>>]
Quoted(lex) == [q |-> TRUE, lex |-> lex]

\* Lexemes that \w+ does not match.
Symbols == { "=", "+", "-", "*", "/", "%", "+=", "-=", "*=", "/=", "%=", "," }

\* '(\w+)': a quoted phrase that is one word.
IsQuotedWord(tok) == tok.q /\ Len(tok.lex) = 1 /\ tok.lex[1] \notin Symbols

\* A bare word equal to w under the /i flag.
IsWordCI(tok, variants) == ~tok.q /\ tok.lex[1] \in variants

Max(S) == CHOOSE x \in S : \A y \in S : x >= y

\* The result of String.prototype.match: null, or the captured groups.
NoMatch == [matched |-> FALSE, g1 |-> None, g2 |-> None]
Match(g1, g2) == [matched |-> TRUE, g1 |-> g1, g2 |-> g2]

\* suggestion.match(/^Rename '(\w+)' .* '(\w+)'/i): groups 1 and 2.
\* The text must start with the word; " .* " needs a token between the two
\* quoted names, and the greedy .* takes the last quoted name.
VariableRenameMatch(text) ==
  LET js == { j \in 4..Len(text) : IsQuotedWord(text[j]) }
  IN IF /\ Len(text) >= 4
        /\ IsWordCI(text[1], { "Rename", "rename", "RENAME" })
        /\ IsQuotedWord(text[2])
        /\ js # {}
     THEN Match(text[2].lex[1], text[Max(js)].lex[1])
     ELSE NoMatch

\* suggestion.match(/function name instead of '(\w+)'.*like '(\w+)'/i)
FunctionRenameMatch(text) ==
  LET is == { i \in 1..(Len(text) - 4) :
                /\ IsWordCI(text[i], { "function", "Function", "FUNCTION" })
                /\ IsWordCI(text[i + 1], { "name", "Name", "NAME" })
                /\ IsWordCI(text[i + 2], { "instead", "Instead", "INSTEAD" })
                /\ IsWordCI(text[i + 3], { "of", "Of", "OF" })
                /\ IsQuotedWord(text[i + 4]) }
      js(i) == { j \in (i + 5)..(Len(text) - 1) :
                   /\ IsWordCI(text[j], { "like", "Like", "LIKE" })
                   /\ IsQuotedWord(text[j + 1]) }
      ok == { i \in is : js(i) # {} }
  IN IF ok = {} THEN NoMatch
     ELSE LET i == Min(ok)
          IN Match(text[i + 4].lex[1], text[Max(js(i)) + 1].lex[1])

\* suggestion.match(/Replace '(\w+)\s*=\s*\1\s*([\+\-\*\/])\s*(.*?)' with
\* '\1\s*([\+\-\*\/]=)\s*.*'/i): g1 is group 1 (the variable), g2 is group 4 (the
\* compound operator).
OperatorShortcutMatch(text) ==
  LET is == { i \in 1..(Len(text) - 3) :
                /\ IsWordCI(text[i], { "Replace", "replace", "REPLACE" })
                /\ text[i + 1].q /\ Len(text[i + 1].lex) >= 4
                /\ text[i + 1].lex[1] \notin Symbols
                /\ text[i + 1].lex[2] = "="
                /\ text[i + 1].lex[3] = text[i + 1].lex[1]
                /\ text[i + 1].lex[4] \in { "+", "-", "*", "/" }
                /\ IsWordCI(text[i + 2], { "with", "With", "WITH" })
                /\ text[i + 3].q /\ Len(text[i + 3].lex) >= 2
                /\ text[i + 3].lex[1] = text[i + 1].lex[1]
                /\ text[i + 3].lex[2] \in { "+=", "-=", "*=", "/=" } }
  IN IF is = {} THEN NoMatch
     ELSE LET i == Min(is)
          IN Match(text[i + 1].lex[1], text[i + 3].lex[2])

\* -------------------------------------------------------------------- rules
\* Each rule yields the tree it leaves, whether it set transformationApplied,
\* whether it called path.stop(), whether it ended by throwing (threw) and
\* whether a catch of enter() has logged and dropped what it threw (logged).

NoChange(ast) ==
  [ast |-> ast, applied |-> FALSE, stop |-> FALSE, threw |-> FALSE, logged |-> FALSE]

\* A rule that rewrites but neither sets the flag nor stops the traversal.
AppliedSilently(ast) ==
  [ast |-> ast, applied |-> FALSE, stop |-> FALSE, threw |-> FALSE, logged |-> FALSE]

\* A rule that sets the flag but leaves the traversal running.
AppliedWithoutStop(ast) ==
  [ast |-> ast, applied |-> TRUE, stop |-> FALSE, threw |-> FALSE, logged |-> FALSE]

\* A rule that fired: transformationApplied = true; path.stop().
Applied(ast) ==
  [ast |-> ast, applied |-> TRUE, stop |-> TRUE, threw |-> FALSE, logged |-> FALSE]

\* A rule that threw before it changed anything.
Threw(ast) ==
  [ast |-> ast, applied |-> FALSE, stop |-> FALSE, threw |-> TRUE, logged |-> FALSE]

\* An exception that leaves the try block it was thrown in.
Rethrow(r) == r

\* catch (_typeError) { console.error(...) }: the exception is logged and
\* dropped, enter() goes on.
CatchTypeError(r) == [r EXCEPT !.threw = FALSE, !.logged = r.threw]

\* catch (_regexError) { console.error(...) }
CatchRegexError(r) == [r EXCEPT !.threw = FALSE, !.logged = r.threw]

\* A node that is no longer part of the tree.
Removed == Node("Removed", "", "", 0, <<>>)

\* USE_CONST without the binding.constant test.
UseConstUnguarded(ast, n, params) ==
  LET varNameToChange == GetParam(params, "variableName")
      declarationPath == FindParent(ast, n, "VariableDeclaration")
  IN IF /\ Truthy(varNameToChange)
        /\ IsType(ast, n, "VariableDeclarator")
        /\ IsIdentifierNamed(ast, Child(ast, n, 1), varNameToChange)
        /\ declarationPath # 0
        /\ ast[declarationPath].op = "let"
     THEN Applied([ast EXCEPT ![declarationPath].op = "const"])
     ELSE NoChange(ast)

\* suggestion.type === 'USE_CONST'
UseConst(ast, n, params) ==
  LET varNameToChange == GetParam(params, "variableName")
      declarationPath == FindParent(ast, n, "VariableDeclaration")
      binding == GetBinding(ast, ScopeOf(ast, n), varNameToChange)
  IN IF /\ Truthy(varNameToChange)
        /\ IsType(ast, n, "VariableDeclarator")
        /\ IsIdentifierNamed(ast, Child(ast, n, 1), varNameToChange)
        /\ declarationPath # 0
        /\ ast[declarationPath].op = "let"
        /\ binding # 0
        /\ Constant(ast, binding)
     THEN Applied([ast EXCEPT ![declarationPath].op = "const"])
     ELSE NoChange(ast)

\* The rename without the test of the binding's declaration type.
RenameVariableAtAnyBinding(ast, n, oldName, newName) ==
  IF HasBinding(ast, ScopeOf(ast, n), oldName)
  THEN Applied(Rename(ast, ScopeOf(ast, n), oldName, newName))
  ELSE NoChange(ast)

\* The rename both tiers perform once they have oldName and newName.
RenameVariableAt(ast, n, oldName, newName) ==
  LET binding == GetBinding(ast, ScopeOf(ast, n), oldName)
  IN IF /\ HasBinding(ast, ScopeOf(ast, n), oldName)
        /\ (binding = 0 \/ ast[binding].type # "FunctionDeclaration")
     THEN Applied(Rename(ast, ScopeOf(ast, n), oldName, newName))
     ELSE NoChange(ast)

\* suggestion.type === 'RENAME_VARIABLE'
RenameVariable(ast, n, params) ==
  LET oldName == GetParam(params, "oldName")
      newName == GetParam(params, "newName")
  IN IF Truthy(oldName) /\ Truthy(newName)
     THEN RenameVariableAt(ast, n, oldName, newName)
     ELSE NoChange(ast)

\* The function rename both tiers perform at a function declaration.
RenameFunctionAt(ast, n, oldFunctionName, newFunctionName) ==
  LET scopeToRenameIn == IF ScopeParent(ast, ScopeOf(ast, n)) # 0
                         THEN ScopeParent(ast, ScopeOf(ast, n))
                         ELSE ScopeOf(ast, n)
  IN IF /\ IsType(ast, n, "FunctionDeclaration")
        /\ IsIdentifierNamed(ast, Child(ast, n, 1), oldFunctionName)
        /\ HasBinding(ast, scopeToRenameIn, oldFunctionName)
     THEN Applied(Rename(ast, scopeToRenameIn, oldFunctionName, newFunctionName))
     ELSE NoChange(ast)

\* suggestion.type === 'RENAME_FUNCTION'
RenameFunction(ast, n, params) ==
  LET oldFunctionName == GetParam(params, "oldName")
      newFunctionName == GetParam(params, "newName")
  IN IF Truthy(oldFunctionName) /\ Truthy(newFunctionName)
     THEN RenameFunctionAt(ast, n, oldFunctionName, newFunctionName)
     ELSE NoChange(ast)

\* path.node.arguments[0] = t.templateLiteral(quasis, [expr]): the call's first
\* argument becomes a new TemplateLiteral whose children are its two quasis
\* (TemplateElement, raw text in name, tail flag in op) and then expr.
ReplaceWithTemplate(ast, call, firstArg, lit, expr, raw1, raw2) ==
  LET tl == Len(ast) + 1
      kept == [ast EXCEPT ![call].children[2] = tl,
                          ![expr].parent = tl,
                          ![firstArg] = Removed,
                          ![lit] = Removed]
  IN kept \o << Node("TemplateLiteral", "", "", call, <<tl + 1, tl + 2, expr>>),
                Node("TemplateElement", raw1, "", tl, <<>>),
                Node("TemplateElement", raw2, "tail", tl, <<>>) >>

\* String values that t.templateElement({ raw, cooked }) rejects ("Invalid raw"):
\* the raw text of a template element must not hold the opening of a
\* substitution (or a backtick).
InvalidRaws == { "${" }

\* console.log(...) as the handler recognises it.
IsConsoleLog(ast, n) ==
  LET callee == Child(ast, n, 1)
  IN /\ IsType(ast, n, "CallExpression")
     /\ IsType(ast, callee, "MemberExpression")
     /\ IsIdentifierNamed(ast, Child(ast, callee, 1), "console")
     /\ IsIdentifierNamed(ast, Child(ast, callee, 2), "log")

\* suggestion.type === 'USE_TEMPLATE_LITERAL', route.ts: "string" + id only.
UseTemplateLiteral(ast, n) ==
  LET firstArg == Child(ast, n, 2)
      left == Child(ast, firstArg, 1)
      right == Child(ast, firstArg, 2)
  IN IF /\ IsConsoleLog(ast, n)
        /\ IsType(ast, firstArg, "BinaryExpression")
        /\ ast[firstArg].op = "+"
        /\ IsType(ast, left, "StringLiteral")
        /\ IsType(ast, right, "Identifier")
     THEN IF ast[left].name \in InvalidRaws
          THEN Threw(ast)
          ELSE Applied(ReplaceWithTemplate(ast, n, firstArg, left, right, ast[left].name, ""))
     ELSE NoChange(ast)

\* suggestion.type === 'USE_TEMPLATE_LITERAL', part_004: also id + "string".
UseTemplateLiteralBothOrders(ast, n) ==
  LET firstArg == Child(ast, n, 2)
      left == Child(ast, firstArg, 1)
      right == Child(ast, firstArg, 2)
  IN IF UseTemplateLiteral(ast, n).applied \/ UseTemplateLiteral(ast, n).threw
     THEN UseTemplateLiteral(ast, n)
     ELSE IF /\ IsConsoleLog(ast, n)
             /\ IsType(ast, firstArg, "BinaryExpression")
             /\ ast[firstArg].op = "+"
             /\ IsType(ast, left, "Identifier")
             /\ IsType(ast, right, "StringLiteral")
     THEN IF ast[right].name \in InvalidRaws
          THEN Threw(ast)
          ELSE Applied(ReplaceWithTemplate(ast, n, firstArg, right, left, "", ast[right].name))
     ELSE NoChange(ast)

\* The compound operator and the binary operator it abbreviates.
OperatorPairs == { <<"+=", "+">>, <<"-=", "-">>, <<"*=", "*">>, <<"/=", "/">> }

\* The operator-shortcut rewrite without the comparison of the requested
\* compound operator with the expression's operator.
OperatorShortcutAnyOperator(ast, n, operator, variable) ==
  LET right == Child(ast, n, 2)
      rl == Child(ast, right, 1)
      rr == Child(ast, right, 2)
  IN IF /\ IsType(ast, n, "AssignmentExpression")
        /\ ast[n].op = "="
        /\ IsIdentifierNamed(ast, Child(ast, n, 1), variable)
        /\ IsType(ast, right, "BinaryExpression")
        /\ IsIdentifierNamed(ast, rl, variable)
     THEN Applied([ast EXCEPT ![n].op = operator,
                              ![n].children[2] = rr,
                              ![rr].parent = n,
                              ![right] = Removed,
                              ![rl] = Removed])
     ELSE NoChange(ast)

\* The operator-shortcut rewrite both tiers perform.
OperatorShortcutAt(ast, n, operator, variable) ==
  LET right == Child(ast, n, 2)
      rl == Child(ast, right, 1)
      rr == Child(ast, right, 2)
  IN IF /\ IsType(ast, n, "AssignmentExpression")
        /\ ast[n].op = "="
        /\ IsIdentifierNamed(ast, Child(ast, n, 1), variable)
        /\ IsType(ast, right, "BinaryExpression")
        /\ IsIdentifierNamed(ast, rl, variable)
        /\ <<operator, ast[right].op>> \in OperatorPairs
     THEN Applied([ast EXCEPT ![n].op = operator,
                              ![n].children[2] = rr,
                              ![rr].parent = n,
                              ![right] = Removed,
                              ![rl] = Removed])
     ELSE NoChange(ast)

\* suggestion.type === 'USE_OPERATOR_SHORTCUT'
UseOperatorShortcut(ast, n, params) ==
  LET operator == GetParam(params, "operator")
      variable == GetParam(params, "variable")
  IN IF Truthy(operator) /\ Truthy(variable)
     THEN OperatorShortcutAt(ast, n, operator, variable)
     ELSE NoChange(ast)

\* The tags attempt 1 has a branch for.
RecognizedTypes ==
  { "USE_CONST", "RENAME_VARIABLE", "RENAME_FUNCTION", "USE_TEMPLATE_LITERAL",
    "USE_OPERATOR_SHORTCUT" }

\* Attempt 1 of enter(): the rule selected by suggestion.type; an unknown type
\* selects none.  handler names the listing that is deployed.
TypeAttempt(ast, n, sug, handler) ==
  CASE sug.type = "USE_CONST" -> UseConst(ast, n, sug.params)
    [] sug.type = "RENAME_VARIABLE" -> RenameVariable(ast, n, sug.params)
    [] sug.type = "RENAME_FUNCTION" -> RenameFunction(ast, n, sug.params)
    [] sug.type = "USE_TEMPLATE_LITERAL" ->
         IF handler = "part_004" THEN UseTemplateLiteralBothOrders(ast, n)
                                 ELSE UseTemplateLiteral(ast, n)
    [] sug.type = "USE_OPERATOR_SHORTCUT" -> UseOperatorShortcut(ast, n, sug.params)
    [] OTHER -> NoChange(ast)

\* Attempt 2 without its variable-rename branch.
RegexBranchesWithoutVariableRename(ast, n, variableRenameMatch, functionRenameMatch, operatorShortcutMatch) ==
  IF functionRenameMatch.matched
  THEN RenameFunctionAt(ast, n, functionRenameMatch.g1, functionRenameMatch.g2)
  ELSE IF operatorShortcutMatch.matched
  THEN OperatorShortcutAt(ast, n, operatorShortcutMatch.g2, operatorShortcutMatch.g1)
  ELSE NoChange(ast)

\* Branches that go on to the next matching pattern when the mutation of an
\* earlier one did not apply at the node.
RegexBranchesFallingThrough(ast, n, variableRenameMatch, functionRenameMatch, operatorShortcutMatch) ==
  IF /\ variableRenameMatch.matched
     /\ RenameVariableAt(ast, n, variableRenameMatch.g1, variableRenameMatch.g2).applied
  THEN RenameVariableAt(ast, n, variableRenameMatch.g1, variableRenameMatch.g2)
  ELSE IF /\ functionRenameMatch.matched
          /\ RenameFunctionAt(ast, n, functionRenameMatch.g1, functionRenameMatch.g2).applied
  THEN RenameFunctionAt(ast, n, functionRenameMatch.g1, functionRenameMatch.g2)
  ELSE IF operatorShortcutMatch.matched
  THEN OperatorShortcutAt(ast, n, operatorShortcutMatch.g2, operatorShortcutMatch.g1)
  ELSE NoChange(ast)

\* The branches of attempt 2, given what the three patterns matched: the
\* first pattern that matched decides the branch.
RegexBranches(ast, n, variableRenameMatch, functionRenameMatch, operatorShortcutMatch) ==
  IF variableRenameMatch.matched
  THEN RenameVariableAt(ast, n, variableRenameMatch.g1, variableRenameMatch.g2)
  ELSE IF functionRenameMatch.matched
  THEN RenameFunctionAt(ast, n, functionRenameMatch.g1, functionRenameMatch.g2)
  ELSE IF operatorShortcutMatch.matched
  THEN OperatorShortcutAt(ast, n, operatorShortcutMatch.g2, operatorShortcutMatch.g1)
  ELSE NoChange(ast)

\* Attempt 2 of enter(): the three patterns are matched against the text, then
\* one branch runs.  Without a text, suggestion.suggestion.match throws.
RegexAttempt(ast, n, sug) ==
  IF ~sug.suggestion.defined THEN Threw(ast)
  ELSE RegexBranches(ast, n,
                     VariableRenameMatch(sug.suggestion.tokens),
                     FunctionRenameMatch(sug.suggestion.tokens),
                     OperatorShortcutMatch(sug.suggestion.tokens))

\* --------------------------------------------------------------- source text

\* @babel/parser: the tree the text denotes; the layout is not kept.
Parse(text) == text.tree

\* Node identities of a rendered tree: its nodes numbered in pre-order.
Normalize(ast) ==
  LET po == PreOrder(ast)
      pos(n) == IF n = 0 THEN 0 ELSE CHOOSE k \in 1..Len(po) : po[k] = n
  IN [k \in 1..Len(po) |->
        [ast[po[k]] EXCEPT !.parent = pos(@),
                           !.children = [j \in 1..Len(@) |-> pos(@[j])]]]

\* @babel/generator: the text of the tree in the generator's own layout.
Generate(ast) == [tree |-> Normalize(ast), layout |-> "canonical"]

\* ------------------------------------------------------------------- inputs

Absent == [t |-> "absent", v |-> None]

Params(variableName, oldName, newName, operator, variable) ==
  [variableName |-> variableName, oldName |-> oldName, newName |-> newName,
   operator |-> operator, variable |-> variable]

NoParams == Params(Absent, Absent, Absent, Absent, Absent)

\* suggestion.type with the params sent along.
TypedParams ==
  { [type |-> "USE_CONST", params |-> Params(v, Absent, Absent, Absent, Absent)] :
      v \in { StrVal("a"), StrVal("b"), Absent } }
  \cup
  { [type |-> "RENAME_VARIABLE", params |-> Params(Absent, on[1], on[2], Absent, Absent)] :
      on \in { <<StrVal("a"), StrVal("b")>>, <<StrVal("f"), StrVal("c")>>,
               <<StrVal("Object"), StrVal("c")>>, <<StrVal("a"), Absent>> } }
  \cup
  { [type |-> "RENAME_FUNCTION", params |-> Params(Absent, StrVal("f"), StrVal("g"), Absent, Absent)] }
  \cup
  { [type |-> "USE_TEMPLATE_LITERAL", params |-> NoParams] }
  \cup
  { [type |-> "USE_OPERATOR_SHORTCUT", params |-> Params(Absent, Absent, Absent, ov[1], ov[2])] :
      ov \in { <<StrVal("+="), StrVal("a")>>, <<StrVal("-="), StrVal("a")>>,
               <<StrVal("+="), StrVal("b")>> } }
  \cup
  { [type |-> "EXTRACT_FUNCTION", params |-> NoParams] }

\* suggestion.suggestion: absent, or one of these texts.
Texts ==
  { NoText,
    Text(<< Word("Rename"), Quoted(<<"a">>), Word("to"), Quoted(<<"b">>) >>),
    Text(<< Word("Use"), Word("a"), Word("function"), Word("name"), Word("instead"),
            Word("of"), Quoted(<<"f">>), Word(","), Word("like"), Quoted(<<"g">>) >>),
    Text(<< Word("Replace"), Quoted(<<"a", "=", "a", "+", "1">>), Word("with"),
            Quoted(<<"a", "+=", "1">>) >>) }

\* A text that asks for the rename of the function f as if it were a variable.
RenameFunctionAsVariable ==
  Text(<< Word("Rename"), Quoted(<<"f">>), Word("to"), Quoted(<<"c">>) >>)

\* Texts that two of the patterns match: the Rename pattern (c to g) and the
\* function pattern (f to g); the function pattern (c to g) and the Replace
\* pattern (a = a + 1).
RenameAndFunctionName ==
  Text(<< Word("Rename"), Quoted(<<"c">>), Word("to"), Word("a"), Word("function"),
          Word("name"), Word("instead"), Word("of"), Quoted(<<"f">>), Word(","),
          Word("like"), Quoted(<<"g">>) >>)

FunctionNameAndReplace ==
  Text(<< Word("Use"), Word("a"), Word("function"), Word("name"), Word("instead"),
          Word("of"), Quoted(<<"c">>), Word(","), Word("like"), Quoted(<<"g">>),
          Word(";"), Word("Replace"), Quoted(<<"a", "=", "a", "+", "1">>), Word("with"),
          Quoted(<<"a", "+=", "1">>) >>)

\* Further suggestions: a function rename onto a bound name, a rename of a
\* property of the object b, a rename whose newName is a number, renames
\* of the function f asked for by the text, and the texts two patterns match.
MoreSuggestions ==
  { [type |-> "RENAME_FUNCTION",
     params |-> Params(Absent, StrVal("f"), StrVal("a"), Absent, Absent),
     suggestion |-> NoText],
    [type |-> "RENAME_VARIABLE",
     params |-> Params(StrVal("b"), StrVal("a"), StrVal("c"), Absent, Absent),
     suggestion |-> NoText],
    [type |-> "RENAME_VARIABLE",
     params |-> Params(Absent, StrVal("a"), NumVal("1"), Absent, Absent),
     suggestion |-> NoText],
    [type |-> "RENAME_VARIABLE",
     params |-> Params(Absent, StrVal("f"), StrVal("c"), Absent, Absent),
     suggestion |-> RenameFunctionAsVariable],
    [type |-> "EXTRACT_FUNCTION", params |-> NoParams,
     suggestion |-> RenameFunctionAsVariable],
    [type |-> "EXTRACT_FUNCTION", params |-> NoParams,
     suggestion |-> RenameAndFunctionName],
    [type |-> "EXTRACT_FUNCTION", params |-> NoParams,
     suggestion |-> FunctionNameAndReplace] }

Suggestions ==
  { [type |-> tp.type, params |-> tp.params, suggestion |-> tx] : tp \in TypedParams, tx \in Texts }
  \cup MoreSuggestions

\* The layout of a text: the generator writes its canonical layout; a client's
\* text is laid out in a way of its own ("loose").
Layouts == { "canonical", "loose" }

\* The two listings of the handler; they differ in USE_TEMPLATE_LITERAL only.
Handlers == { "route.ts", "part_004" }

\* Text that is not there yet.
NoCode == [tree |-> <<>>, layout |-> ""]
\* The response: its status and the error or the modifiedCode of its body
\* ("" and NoCode when the body has no such key).
NoResponse == [status |-> 0, error |-> "", modifiedCode |-> NoCode]

\* NextResponse.json({ error }, { status })
ErrorResponse(status, error) == [status |-> status, error |-> error, modifiedCode |-> NoCode]

\* NextResponse.json({ modifiedCode })
CodeResponse(text) == [status |-> 200, error |-> "", modifiedCode |-> text]

\* A text @babel/parser gives up on even with errorRecovery (an unterminated
\* string, say): parse throws a SyntaxError.
Unparseable == [tree |-> << Node("SyntaxError", "", "", 0, <<>>) >>, layout |-> "loose"]

ParseThrows(text) == text.tree[1].type # "Program"

\* The shape of a request: what request.json() yields (an object, null,
\* another JSON value, or a SyntaxError for a malformed body), and for an
\* object the kinds of body.code, body.suggestion and body.suggestion.type.
Request(json, codeKind, suggestionKind, typeKind) ==
  [json |-> json, code |-> codeKind, suggestion |-> suggestionKind, type |-> typeKind]

GoodRequest == Request("object", "string", "object", "string")

BadRequests ==
  { Request("malformed", "absent", "absent", "absent"),
    Request("null", "absent", "absent", "absent"),
    Request("number", "absent", "absent", "absent") }
  \cup { Request("object", c, "object", "string") : c \in { "absent", "empty", "number" } }
  \cup { Request("object", "string", sg, "absent") : sg \in { "absent", "null" } }
  \cup { Request("object", "string", "object", tk) : tk \in { "absent", "number" } }

\* body.suggestion of a request that has none the handler could use.
NoSuggestion == [type |-> None, params |-> NoParams, suggestion |-> NoText]

\* What the handler answers before any tree work: request.json() or the
\* destructuring of null throws into the outer catch (500); a falsy or
\* non-string code, then a falsy suggestion or a non-string type, is answered
\* 400; NoResponse when the request passes.
Validate(req) ==
  IF req.json = "malformed"
  THEN ErrorResponse(500, "Internal Server Error: Unexpected token")
  ELSE IF req.json = "null"
  THEN ErrorResponse(500, "Internal Server Error: Cannot destructure property 'code'")
  ELSE IF req.json # "object" \/ req.code # "string"
  THEN ErrorResponse(400, "Original code snippet is required.")
  ELSE IF req.suggestion # "object" \/ req.type # "string"
  THEN ErrorResponse(400, "Structured suggestion object with type is required.")
  ELSE NoResponse

\* ------------------------------------------------------------ state machine

VARIABLES
  request,                \* the shape of the request body
  code,                   \* body.code
  suggestion,             \* body.suggestion
  handler,                \* the listing that serves the request
  pc,                     \* where the handler is
  ast,                    \* the tree being walked
  queue,                  \* the nodes still to be entered, in visiting order
  transformationApplied,
  modifiedCode,
  response,               \* what the handler returned
  visited,                \* nodes whose enter() has run, in order
  rewrites,               \* enter() attempts that changed the tree
  firedTier,              \* the attempt that set transformationApplied
  firedAt,                \* the node at which it did
  generated,              \* whether the generator ran
  caught,                 \* the exceptions enter() caught: node and attempt
  round,                  \* 1 for a request, 2 for the resubmission of its answer
  first,                  \* in round 2: the first request's code and the tier that fired
  parked,                 \* a second invocation of POST, while the first one runs
  anthropic,              \* /api/analyze: whether the client was constructed
  analyzeBody,            \* /api/analyze: the shape of the request body
  analyzePc,              \* /api/analyze: where its POST is
  calls,                  \* /api/analyze: the calls of callAnthropicModel, in order
  analyzeResponse,        \* /api/analyze: what its POST returned
  inputCode,              \* page: useState inputCode
  suggestions,            \* page: useState suggestions
  isLoadingSuggestions,   \* page: useState isLoadingSuggestions
  error,                  \* page: useState error
  applyingSuggestionIndex,\* page: useState applyingSuggestionIndex
  copySuccess,            \* page: useState copySuccess
  view,                   \* page: the state of the last render, which the handlers close over
  pending,                \* page: the handlers suspended at an await
  timers                  \* page: the setTimeout callbacks not yet run

\* One invocation of the apply handler (and its resubmission).
applyVars == << request, code, suggestion, handler, pc, ast, queue, transformationApplied,
                modifiedCode, response, visited, rewrites, firedTier, firedAt, generated,
                caught, round, first >>

\* The state of the suggestion generator's endpoint.
analyzeVars == << anthropic, analyzeBody, analyzePc, calls, analyzeResponse >>

\* The state of the page.
pageVars == << inputCode, suggestions, isLoadingSuggestions, error, applyingSuggestionIndex,
               copySuccess, view, pending, timers >>

\* The components other than the apply handler.
elsewhere == << analyzeVars, pageVars >>

\* What lives outside one invocation of the apply handler.
outside == << parked, elsewhere >>

vars == << applyVars, outside >>

\* No second invocation.
NoInvocation == [pc |-> "none"]

\* What /api/analyze answers: NextResponse.json({ error }, { status }) or
\* NextResponse.json({ suggestions }); status 0 while it has not answered.
NoAnalyzeResponse == [status |-> 0, error |-> "", suggestions |-> << >>]

\* null, as the value of a piece of page state.
Null == "null"
NoIndex == 0 - 1
NoList == [null |-> TRUE, list |-> << >>]

\* The state the component holds, as one render sees it.
State ==
  [inputCode |-> inputCode, suggestions |-> suggestions,
   isLoadingSuggestions |-> isLoadingSuggestions, error |-> error,
   applyingSuggestionIndex |-> applyingSuggestionIndex, copySuccess |-> copySuccess]

\* No page is open.
PageIdle ==
  /\ inputCode = ""
  /\ suggestions = NoList
  /\ isLoadingSuggestions = FALSE
  /\ error = Null
  /\ applyingSuggestionIndex = NoIndex
  /\ copySuccess = FALSE
  /\ view = State
  /\ pending = << >>
  /\ timers = [copySuccess |-> 0, error |-> 0]

\* /api/analyze receives no request.
AnalyzeIdle ==
  /\ anthropic = TRUE
  /\ analyzeBody = "none"
  /\ analyzePc = "idle"
  /\ calls = << >>
  /\ analyzeResponse = NoAnalyzeResponse

\* The apply handler alone on the server.
InitOutside ==
  /\ parked = NoInvocation
  /\ AnalyzeIdle
  /\ PageIdle

\* What round 2 remembers of round 1 while there was none.
NoFirst == [code |-> NoCode, tier |-> None]

\* A request of a usable shape: a program laid out in the client's own way or
\* an unparseable text, with any of the suggestions.  (A request in the
\* generator's layout is what Resubmit sends.)
InitGood ==
  /\ request = GoodRequest
  /\ \/ \E prog \in Programs : code = [tree |-> Build(prog), layout |-> "loose"]
     \/ code = Unparseable
  /\ suggestion \in Suggestions
  /\ handler \in IF suggestion.type = "USE_TEMPLATE_LITERAL" THEN Handlers ELSE { "route.ts" }

\* A request of a bad shape; what it holds besides is never looked at.
InitBad ==
  /\ request \in BadRequests
  /\ code = IF request.code = "string"
            THEN [tree |-> Build(<< DeclNum("let", "a") >>), layout |-> "loose"]
            ELSE NoCode
  /\ suggestion = NoSuggestion
  /\ handler \in Handlers

\* The handler has been called and has not run yet.
NotStarted ==
  /\ pc = "start"
  /\ ast = <<>>
  /\ queue = <<>>
  /\ transformationApplied = FALSE
  /\ modifiedCode = NoCode
  /\ response = NoResponse
  /\ visited = <<>>
  /\ rewrites = 0
  /\ firedTier = None
  /\ firedAt = 0
  /\ generated = FALSE
  /\ caught = {}
  /\ round = 1
  /\ first = NoFirst

\* A request arrives at a handler that has not run.
InitInvocation == (InitGood \/ InitBad) /\ NotStarted

Init == InitInvocation /\ InitOutside

\* The catch of transformation errors answering with another status.
TransformErrorAsBadGateway(message) ==
  ErrorResponse(502, "Failed to apply suggestion: " \o message)

\* catch (_transformError): status 500, no modifiedCode.
TransformError(message) ==
  ErrorResponse(500, "Failed to apply suggestion: " \o message)

\* A handler that starts from the generator's rendering of the parsed code
\* instead of the request's text.
StartFromRendering ==
  /\ pc = "start"
  /\ \E v \in { Validate(request) } :
       IF v # NoResponse
       THEN /\ response' = v
            /\ pc' = "done"
            /\ UNCHANGED << modifiedCode, transformationApplied, ast >>
       ELSE IF ParseThrows(code)
       THEN /\ response' = TransformError("Unterminated string constant")
            /\ pc' = "done"
            /\ modifiedCode' = code
            /\ transformationApplied' = FALSE
            /\ ast' = ast
       ELSE /\ modifiedCode' = Generate(Parse(code))
            /\ transformationApplied' = FALSE
            /\ ast' = Parse(code)
            /\ pc' = "traverse"
            /\ response' = response
  /\ UNCHANGED << request, code, suggestion, handler, queue, visited, rewrites,
                  firedTier, firedAt, generated, caught, round, first, outside >>

\* The handler up to the traversal: validation; then let modifiedCode = code;
\* let transformationApplied = false; then babelParser.parse(code), whose
\* exception goes to catch (_transformError).
Start ==
  /\ pc = "start"
  /\ \E v \in { Validate(request) } :
       IF v # NoResponse
       THEN /\ response' = v
            /\ pc' = "done"
            /\ UNCHANGED << modifiedCode, transformationApplied, ast >>
       ELSE IF ParseThrows(code)
       THEN /\ response' = TransformError("Unterminated string constant")
            /\ pc' = "done"
            /\ modifiedCode' = code
            /\ transformationApplied' = FALSE
            /\ ast' = ast
       ELSE /\ modifiedCode' = code
            /\ transformationApplied' = FALSE
            /\ ast' = Parse(code)
            /\ pc' = "traverse"
            /\ response' = response
  /\ UNCHANGED << request, code, suggestion, handler, queue, visited, rewrites,
                  firedTier, firedAt, generated, caught, round, first, outside >>

\* traverseFunc(ast, { enter }) begins: the scope crawl, which throws on a
\* duplicate declaration; otherwise the Program node is entered first.
TraverseBegin ==
  /\ pc = "traverse"
  /\ IF DuplicateDeclaration(ast)
     THEN /\ response' = TransformError("Duplicate declaration")
          /\ pc' = "done"
          /\ queue' = queue
     ELSE /\ queue' = PreOrder(ast)
          /\ pc' = "enter"
          /\ response' = response
  /\ UNCHANGED << request, code, suggestion, handler, ast, transformationApplied,
                  modifiedCode, visited, rewrites, firedTier, firedAt, generated,
                  caught, round, first, outside >>

\* The nodes visited after n: those that follow it in pre-order of the tree
\* as enter(n) left it.
NodesAfter(tree, n) ==
  LET po == PreOrder(tree)
      k == CHOOSE i \in 1..Len(po) : po[i] = n
  IN SubSeq(po, k + 1, Len(po))

\* Attempt 2 runs only while transformationApplied is unset: r1 is what
\* attempt 1 and its catch left.  An exception that left attempt 1 ends enter().
SecondAttempt(r1, n, sug, flag) ==
  IF ~(flag \/ r1.applied) /\ ~r1.threw
  THEN CatchRegexError(RegexAttempt(r1.ast, n, sug))
  ELSE NoChange(r1.ast)

\* What enter() leaves, given the results r1 and r2 of its two attempts: the
\* tree, the flag, whether the walk stops, the attempt that fired, the number
\* of attempts that changed the tree, the attempts whose exception was caught
\* and whether an exception left enter().
Outcome(tree, flag, r1, r2) ==
  [ast |-> r2.ast,
   applied |-> flag \/ r1.applied \/ r2.applied,
   stop |-> r1.stop \/ r2.stop,
   tier |-> IF r1.applied THEN "TYPE" ELSE IF r2.applied THEN "REGEX" ELSE None,
   changes |-> (IF r1.ast # tree THEN 1 ELSE 0) + (IF r2.ast # r1.ast THEN 1 ELSE 0),
   caught |-> (IF r1.logged THEN { "TYPE" } ELSE {}) \cup (IF r2.logged THEN { "REGEX" } ELSE {}),
   escaped |-> r1.threw \/ r2.threw]

\* enter() after attempt 1 returned r1.
AfterFirstAttempt(tree, n, sug, flag, r1) ==
  Outcome(tree, flag, r1, SecondAttempt(r1, n, sug, flag))

\* What one enter(path) call does at node n, given the flag on entry.
EnterResult(tree, n, sug, hd, flag) ==
  AfterFirstAttempt(tree, n, sug, flag,
                    IF ~flag THEN CatchTypeError(TypeAttempt(tree, n, sug, hd))
                             ELSE NoChange(tree))

\* The nodes still to be entered once enter(cur) returned r.
RestOfWalk(cur, r) ==
  IF r.stop \/ r.escaped THEN <<>>
  ELSE IF r.ast = ast THEN Tail(queue)
  ELSE NodesAfter(r.ast, cur)

\* enter(path) at the current node.  An exception that leaves enter() leaves
\* traverseFunc too and reaches catch (_transformError).
Enter ==
  /\ pc = "enter"
  /\ \E r \in { EnterResult(ast, Head(queue), suggestion, handler, transformationApplied) } :
       /\ ast' = r.ast
       /\ transformationApplied' = r.applied
       /\ visited' = Append(visited, Head(queue))
       /\ rewrites' = rewrites + r.changes
       /\ firedTier' = IF r.tier # None THEN r.tier ELSE firedTier
       /\ firedAt' = IF r.tier # None THEN Head(queue) ELSE firedAt
       /\ caught' = caught \cup { [at |-> Head(queue), tier |-> t] : t \in r.caught }
       /\ queue' = RestOfWalk(Head(queue), r)
       /\ pc' = IF r.escaped THEN "done"
                ELSE IF RestOfWalk(Head(queue), r) = <<>> THEN "finish" ELSE "enter"
       /\ response' = IF r.escaped THEN TransformError("Cannot read properties of undefined")
                      ELSE response
  /\ UNCHANGED << request, code, suggestion, handler, modifiedCode, generated, round, first, outside >>

\* A handler that never calls the generator.
FinishWithoutGenerator ==
  /\ pc = "finish"
  /\ modifiedCode' = modifiedCode
  /\ generated' = transformationApplied
  /\ response' = CodeResponse(modifiedCode)
  /\ pc' = "done"
  /\ UNCHANGED << request, code, suggestion, handler, ast, queue, transformationApplied,
                  visited, rewrites, firedTier, firedAt, caught, round, first, outside >>

\* After the traversal: generate only when a rule fired, then respond.  The
\* generator is a dependency that may throw; its exception goes to
\* catch (_transformError) and no modifiedCode is returned.
Finish ==
  /\ pc = "finish"
  /\ \E thrown \in IF transformationApplied THEN BOOLEAN ELSE { FALSE } :
       IF thrown
       THEN /\ response' = TransformError("generator failed")
            /\ UNCHANGED << modifiedCode, generated >>
       ELSE /\ modifiedCode' = IF transformationApplied THEN Generate(ast) ELSE modifiedCode
            /\ generated' = transformationApplied
            /\ response' = CodeResponse(modifiedCode')
  /\ pc' = "done"
  /\ UNCHANGED << request, code, suggestion, handler, ast, queue, transformationApplied,
                  visited, rewrites, firedTier, firedAt, caught, round, first, outside >>

Next == Start \/ TraverseBegin \/ Enter \/ Finish

Spec == Init /\ [][Next]_vars

\* The client submits the code it was answered with again, with the same
\* suggestion.
Resubmit ==
  /\ pc = "done" /\ round = 1 /\ response.status = 200 /\ transformationApplied
  /\ code' = modifiedCode
  /\ first' = [code |-> code, tier |-> firedTier]
  /\ round' = 2
  /\ pc' = "start"
  /\ ast' = <<>>
  /\ queue' = <<>>
  /\ transformationApplied' = FALSE
  /\ modifiedCode' = NoCode
  /\ response' = NoResponse
  /\ visited' = <<>>
  /\ rewrites' = 0
  /\ firedTier' = None
  /\ firedAt' = 0
  /\ generated' = FALSE
  /\ caught' = {}
  /\ UNCHANGED << request, suggestion, handler, outside >>

NextResubmit == Next \/ Resubmit

\* The same handler with the requests restricted to one suggestion type.
InitUseConst == Init /\ suggestion.type = "USE_CONST"
SpecUseConst == InitUseConst /\ [][Next]_vars

InitRenameVariable == Init /\ suggestion.type = "RENAME_VARIABLE"
SpecRenameVariable == InitRenameVariable /\ [][Next]_vars

InitRenameFunction == Init /\ suggestion.type = "RENAME_FUNCTION"
SpecRenameFunction == InitRenameFunction /\ [][Next]_vars

InitTemplateLiteral == Init /\ suggestion.type = "USE_TEMPLATE_LITERAL"
SpecTemplateLiteral == InitTemplateLiteral /\ [][Next]_vars

InitOperatorShortcut == Init /\ suggestion.type = "USE_OPERATOR_SHORTCUT"
SpecOperatorShortcut == InitOperatorShortcut /\ [][Next]_vars

\* USE_CONST asked for one variable of a declaration that declares two.
SiblingStatements ==
  { DeclTwo("let", "a", "b"),             \* let a = 1, b = 1;
    AssignBin("a", Id("a"), "+"),         \* a = a + 1;
    AssignBin("b", Id("b"), "+") }        \* b = b + 1;

InitSiblings ==
  /\ request = GoodRequest
  /\ \E prog \in SeqsUpTo(SiblingStatements, MaxStmts) \ { <<>> } :
       code = [tree |-> Build(prog), layout |-> "loose"]
  /\ \E v \in { "a", "b" } :
       suggestion = [type |-> "USE_CONST",
                     params |-> Params(StrVal(v), Absent, Absent, Absent, Absent),
                     suggestion |-> NoText]
  /\ handler = "route.ts"
  /\ NotStarted
  /\ InitOutside

SpecUseConstSiblings == InitSiblings /\ [][Next]_vars

\* Renames whose answers are submitted again.
SpecResubmit == InitRenameVariable /\ [][NextResubmit]_vars

\* ------------------------------------------------------------ /api/analyze

\* The apply handler receives no request.
ApplyIdle ==
  /\ request = GoodRequest
  /\ code = NoCode
  /\ suggestion = NoSuggestion
  /\ handler = "route.ts"
  /\ pc = "idle"
  /\ ast = <<>>
  /\ queue = <<>>
  /\ transformationApplied = FALSE
  /\ modifiedCode = NoCode
  /\ response = NoResponse
  /\ visited = <<>>
  /\ rewrites = 0
  /\ firedTier = None
  /\ firedAt = 0
  /\ generated = FALSE
  /\ caught = {}
  /\ round = 1
  /\ first = NoFirst
  /\ parked = NoInvocation

PRIMARY_MODEL == "claude-3-7-sonnet-20250219"
FALLBACK_MODEL == "claude-3-5-sonnet-20241022"

\* An error message is modelled by the fragments the handler looks for that
\* it contains (String.prototype.includes).  The message of a format error
\* carries the model's name, which contains none of the other fragments.
Fragments ==
  { "529", "invalid_parameter_error", "model is invalid", "Invalid model", "quota",
    "billing", "ENOTFOUND", "Connection error", "AI response format error" }

MaxFragments == 2

Messages == { m \in SUBSET Fragments : Cardinality(m) <= MaxFragments }

Includes(message, fragment) == fragment \in message

\* What a call of callAnthropicModel ends with: the array it returns, or what
\* it throws (an Error with a message, or a value that is no Error).
Returned(list) == [ok |-> TRUE, list |-> list, isError |-> FALSE, message |-> {}]
Thrown(message) == [ok |-> FALSE, list |-> << >>, isError |-> TRUE, message |-> message]
ThrownValue == [ok |-> FALSE, list |-> << >>, isError |-> FALSE, message |-> {}]

\* What anthropic.messages.create does: it rejects, or resolves to a message
\* whose text is a valid array of suggestions, an empty array, an array of
\* the wrong structure, a bracketed text that is not JSON, a text without an
\* array, or no text.
ApiOutcomes ==
  { [rejects |-> TRUE, error |-> e, text |-> ""] :
      e \in { Thrown(m) : m \in Messages } \cup { ThrownValue } }
  \cup
  { [rejects |-> FALSE, error |-> ThrownValue, text |-> t] :
      t \in { "array", "emptyArray", "mismatch", "notJson", "prose", "empty" } }

\* callAnthropicModel(modelName, prompt), given what the API does.
CallAnthropicModel(modelName, api) ==
  IF api.rejects THEN api.error
  ELSE IF api.text = "array" THEN Returned(<< "suggestion" >>)
  ELSE IF api.text = "emptyArray" THEN Returned(<< >>)
  ELSE IF api.text \in { "mismatch", "notJson" } THEN Thrown({ "AI response format error" })
  ELSE Returned(<< >>)

\* NextResponse.json({ error }, { status }) of /api/analyze.
AnalyzeError(status, message) == [status |-> status, error |-> message, suggestions |-> << >>]

\* NextResponse.json({ suggestions })
AnalyzeSuggestions(list) == [status |-> 200, error |-> "", suggestions |-> list]

\* const isOverloaded = primaryError instanceof Error && primaryError.message.includes('529')
IsOverloaded(primaryError) == primaryError.isError /\ Includes(primaryError.message, "529")

\* A handler that answers every primary failure with 502.
PrimaryFailureAlwaysBadGateway(primaryError) ==
  AnalyzeError(502, "Failed to communicate with primary AI service")

\* The answer to a primary failure that is no overload.
PrimaryFailure(primaryError) ==
  LET message == IF primaryError.isError THEN primaryError.message ELSE {}
  IN IF \/ Includes(message, "invalid_parameter_error")
        \/ Includes(message, "model is invalid")
        \/ Includes(message, "Invalid model")
     THEN AnalyzeError(500, "Failed to use primary AI model")
     ELSE IF Includes(message, "quota") \/ Includes(message, "billing")
     THEN AnalyzeError(429, "AI service quota or billing issue")
     ELSE IF Includes(message, "ENOTFOUND") \/ Includes(message, "Connection error")
     THEN AnalyzeError(504, "Network error connecting to AI service")
     ELSE IF Includes(message, "AI response format error")
     THEN AnalyzeError(502, "AI response format error")
     ELSE AnalyzeError(502, "Failed to communicate with primary AI service")

\* POST up to the first model call: the client check, request.json() and the
\* validation of code.
AnalyzeStart ==
  /\ analyzePc = "start"
  /\ IF ~anthropic
     THEN /\ analyzeResponse' = AnalyzeError(500, "AI service not configured.")
          /\ analyzePc' = "done"
     ELSE IF analyzeBody \in { "malformed", "null" }
     THEN /\ analyzeResponse' = AnalyzeError(500, "Internal Server Error")
          /\ analyzePc' = "done"
     ELSE IF analyzeBody # "code"
     THEN /\ analyzeResponse' = AnalyzeError(400, "Code snippet is required.")
          /\ analyzePc' = "done"
     ELSE /\ analyzeResponse' = analyzeResponse
          /\ analyzePc' = "primary"
  /\ UNCHANGED << anthropic, analyzeBody, calls, applyVars, parked, pageVars >>

\* A handler that tries the fallback model after every primary failure.
CallPrimaryThenAlwaysFallback ==
  /\ analyzePc = "primary"
  /\ \E api \in ApiOutcomes :
       \E result \in { CallAnthropicModel(PRIMARY_MODEL, api) } :
         /\ calls' = Append(calls, [model |-> PRIMARY_MODEL, result |-> result])
         /\ IF result.ok
            THEN /\ analyzeResponse' = AnalyzeSuggestions(result.list)
                 /\ analyzePc' = "done"
            ELSE /\ analyzeResponse' = analyzeResponse
                 /\ analyzePc' = "fallback"
  /\ UNCHANGED << anthropic, analyzeBody, applyVars, parked, pageVars >>

\* suggestions = await callAnthropicModel(PRIMARY_MODEL, prompt) and the
\* catch around it, up to the fallback call.
CallPrimary ==
  /\ analyzePc = "primary"
  /\ \E api \in ApiOutcomes :
       \E result \in { CallAnthropicModel(PRIMARY_MODEL, api) } :
         /\ calls' = Append(calls, [model |-> PRIMARY_MODEL, result |-> result])
         /\ IF result.ok
            THEN /\ analyzeResponse' = AnalyzeSuggestions(result.list)
                 /\ analyzePc' = "done"
            ELSE IF IsOverloaded(result)
            THEN /\ analyzeResponse' = analyzeResponse
                 /\ analyzePc' = "fallback"
            ELSE /\ analyzeResponse' = PrimaryFailure(result)
                 /\ analyzePc' = "done"
  /\ UNCHANGED << anthropic, analyzeBody, applyVars, parked, pageVars >>

\* suggestions = await callAnthropicModel(FALLBACK_MODEL, prompt) and its catch.
CallFallback ==
  /\ analyzePc = "fallback"
  /\ \E api \in ApiOutcomes :
       \E result \in { CallAnthropicModel(FALLBACK_MODEL, api) } :
         /\ calls' = Append(calls, [model |-> FALLBACK_MODEL, result |-> result])
         /\ analyzeResponse' =
              IF result.ok THEN AnalyzeSuggestions(result.list)
              ELSE AnalyzeError(502, "AI service failed on primary (overload) and fallback")
  /\ analyzePc' = "done"
  /\ UNCHANGED << anthropic, analyzeBody, applyVars, parked, pageVars >>

AnalyzeBodies == { "code", "blank", "absent", "number", "null", "malformed" }

InitAnalyze ==
  /\ ApplyIdle
  /\ PageIdle
  /\ anthropic \in BOOLEAN
  /\ analyzeBody \in AnalyzeBodies
  /\ analyzePc = "start"
  /\ calls = << >>
  /\ analyzeResponse = NoAnalyzeResponse

NextAnalyze == AnalyzeStart \/ CallPrimary \/ CallFallback

SpecAnalyze == InitAnalyze /\ [][NextAnalyze]_vars

\* ------------------------------------------------------------------- page

\* The texts the editor holds: nothing, blanks, a snippet, and what the apply
\* endpoint makes of the snippet.
Snippet == "let a = 1;"
EditorTexts == { "", " ", Snippet }
Rewritten(text) == IF text = Snippet THEN "const a = 1;" ELSE text

\* String.prototype.trim
Trim(text) == IF text = " " THEN "" ELSE text

\* The suggestion lists /api/analyze delivers.
List(l) == [null |-> FALSE, list |-> l]
SuggestionLists == { << >>, << "USE_CONST", "RENAME_VARIABLE" >> }

\* setError("Failed to copy code. ...")
CopyFailed == "Failed to copy code."

\* What an awaited call settles with.  fetch rejects, or resolves to a
\* response with response.ok, a body that is JSON or not, and the keys error,
\* modifiedCode and suggestions of the body (absent: "", Null, NoList);
\* navigator.clipboard.writeText rejects or resolves.
Result(rejects, ok, json, message, modified, list) ==
  [rejects |-> rejects, ok |-> ok, json |-> json, error |-> message,
   modifiedCode |-> modified, suggestions |-> list]

NoResult == Result(FALSE, FALSE, FALSE, "", Null, NoList)

ErrorResults ==
  { Result(TRUE, FALSE, FALSE, "", Null, NoList),
    Result(FALSE, FALSE, TRUE, "server error", Null, NoList),
    Result(FALSE, FALSE, TRUE, "", Null, NoList),
    Result(FALSE, FALSE, FALSE, "", Null, NoList),
    Result(FALSE, TRUE, FALSE, "", Null, NoList) }

\* What the await of a suspended handler can settle with.
Results(p) ==
  IF p.kind = "copy"
  THEN { Result(r, FALSE, FALSE, "", Null, NoList) : r \in BOOLEAN }
  ELSE IF p.kind = "apply"
  THEN ErrorResults
       \cup { Result(FALSE, TRUE, TRUE, "", m, NoList) : m \in { Null, p.sent, Rewritten(p.sent) } }
  ELSE ErrorResults
       \cup { Result(FALSE, TRUE, TRUE, "", Null, l) : l \in { NoList } \cup { List(x) : x \in SuggestionLists } }

\* A handler suspended at its await.
Suspended(kind, sent, index) ==
  [kind |-> kind, sent |-> sent, index |-> index, settled |-> FALSE, result |-> NoResult]

RemoveAt(seq, i) == SubSeq(seq, 1, i - 1) \o SubSeq(seq, i + 1, Len(seq))

MaxPending == 2
MaxTimers == 1

\* The error a handler throws for a response that is not ok.
NotOkMessage(res, prefix) ==
  IF res.json /\ res.error # "" THEN res.error
  ELSE IF res.json THEN "Server responded with status 500"
  ELSE prefix

\* The try block of handleAnalyzeClick after the fetch settled: the
\* suggestions it sets, or the message of what it throws.
AnalyzeOutcome(res) ==
  IF res.rejects THEN [failed |-> TRUE, message |-> "Failed to fetch", list |-> << >>]
  ELSE IF ~res.ok
  THEN [failed |-> TRUE, message |-> NotOkMessage(res, "HTTP error! Status: 500"), list |-> << >>]
  ELSE IF ~res.json THEN [failed |-> TRUE, message |-> "Unexpected token", list |-> << >>]
  ELSE [failed |-> FALSE, message |-> "",
        list |-> IF res.suggestions.null THEN << >> ELSE res.suggestions.list]

\* The try block of handleApplySuggestionClick after the fetch settled.
ApplyOutcome(res) ==
  IF res.rejects THEN [failed |-> TRUE, message |-> "Failed to fetch", modifiedCode |-> Null]
  ELSE IF ~res.ok
  THEN [failed |-> TRUE, message |-> NotOkMessage(res, "Apply failed! Status: 500"),
        modifiedCode |-> Null]
  ELSE IF ~res.json THEN [failed |-> TRUE, message |-> "Unexpected token", modifiedCode |-> Null]
  ELSE IF res.modifiedCode # Null
  THEN [failed |-> FALSE, message |-> "", modifiedCode |-> res.modifiedCode]
  ELSE [failed |-> TRUE, message |-> "Invalid response received from apply API.",
        modifiedCode |-> Null]

\* handleEditorChange(value); value is undefined (Null) in some edge cases.
\* An editor event is a discrete event: React renders before the next one.
HandleEditorChange(value) ==
  /\ inputCode' = IF value = Null THEN "" ELSE value
  /\ UNCHANGED << suggestions, isLoadingSuggestions, error, applyingSuggestionIndex,
                  copySuccess, pending, timers >>
  /\ view' = State'
  /\ UNCHANGED << applyVars, parked, analyzeVars >>

\* disabled={isLoadingSuggestions || applyingSuggestionIndex !== null || !inputCode.trim()}
AnalyzeDisabled(v) ==
  v.isLoadingSuggestions \/ v.applyingSuggestionIndex # NoIndex \/ Trim(v.inputCode) = ""

\* handleAnalyzeClick up to its await: the click reaches an enabled button,
\* the handler sees the state of the render it was created in.
HandleAnalyzeClick ==
  /\ ~AnalyzeDisabled(view)
  /\ ~(view.isLoadingSuggestions \/ view.applyingSuggestionIndex # NoIndex
         \/ Trim(view.inputCode) = "")
  /\ Len(pending) < MaxPending
  /\ suggestions' = NoList
  /\ error' = Null
  /\ isLoadingSuggestions' = TRUE
  /\ pending' = Append(pending, Suspended("analyze", view.inputCode, NoIndex))
  /\ UNCHANGED << inputCode, applyingSuggestionIndex, copySuccess, timers >>
  /\ view' = State'
  /\ UNCHANGED << applyVars, parked, analyzeVars >>

\* The Apply Fix button of suggestion index is on the page and enabled.
ApplyEnabled(v, index) ==
  /\ ~v.suggestions.null /\ ~v.isLoadingSuggestions /\ v.error = Null
  /\ index \in 0..(Len(v.suggestions.list) - 1)
  /\ ~(v.applyingSuggestionIndex = index \/ v.isLoadingSuggestions)

\* A handler without the test of its first line.
HandleApplySuggestionClickUnguarded(index) ==
  /\ ApplyEnabled(view, index)
  /\ Len(pending) < MaxPending
  /\ applyingSuggestionIndex' = index
  /\ error' = Null
  /\ pending' = Append(pending, Suspended("apply", view.inputCode, index))
  /\ UNCHANGED << inputCode, suggestions, isLoadingSuggestions, copySuccess, timers >>
  /\ view' = State'
  /\ UNCHANGED << applyVars, parked, analyzeVars >>

\* handleApplySuggestionClick(suggestionToApply, index) up to its await.
HandleApplySuggestionClick(index) ==
  /\ ApplyEnabled(view, index)
  /\ ~(view.applyingSuggestionIndex # NoIndex \/ view.isLoadingSuggestions)
  /\ Len(pending) < MaxPending
  /\ applyingSuggestionIndex' = index
  /\ error' = Null
  /\ pending' = Append(pending, Suspended("apply", view.inputCode, index))
  /\ UNCHANGED << inputCode, suggestions, isLoadingSuggestions, copySuccess, timers >>
  /\ view' = State'
  /\ UNCHANGED << applyVars, parked, analyzeVars >>

\* The writes to the clipboard under way and the timers they have started.
Copies ==
  Cardinality({ i \in DOMAIN pending : pending[i].kind = "copy" })
    + timers.copySuccess + timers.error

\* handleCopyClick up to its await.
HandleCopyClick ==
  /\ Trim(view.inputCode) # ""
  /\ view.inputCode # ""
  /\ Len(pending) < MaxPending /\ Copies < MaxTimers
  /\ error' = Null
  /\ pending' = Append(pending, Suspended("copy", view.inputCode, NoIndex))
  /\ UNCHANGED << inputCode, suggestions, isLoadingSuggestions, applyingSuggestionIndex,
                  copySuccess, timers >>
  /\ view' = State'
  /\ UNCHANGED << applyVars, parked, analyzeVars >>

\* The awaited call of a suspended handler settles.
Settle(i) ==
  /\ i \in DOMAIN pending
  /\ ~pending[i].settled
  /\ \E res \in Results(pending[i]) :
       pending' = [pending EXCEPT ![i].settled = TRUE, ![i].result = res]
  /\ UNCHANGED << inputCode, suggestions, isLoadingSuggestions, error,
                  applyingSuggestionIndex, copySuccess, view, timers >>
  /\ UNCHANGED << applyVars, parked, analyzeVars >>

\* handleAnalyzeClick with its last statement inside the try block.
ResumeAnalyzeWithoutFinally(i) ==
  /\ i \in DOMAIN pending
  /\ pending[i].kind = "analyze" /\ pending[i].settled
  /\ \E o \in { AnalyzeOutcome(pending[i].result) } :
       /\ suggestions' = IF o.failed THEN NoList ELSE List(o.list)
       /\ error' = IF o.failed THEN o.message ELSE error
       /\ isLoadingSuggestions' = IF o.failed THEN isLoadingSuggestions ELSE FALSE
  /\ pending' = RemoveAt(pending, i)
  /\ UNCHANGED << inputCode, applyingSuggestionIndex, copySuccess, view, timers >>
  /\ UNCHANGED << applyVars, parked, analyzeVars >>

\* handleAnalyzeClick after its await: try, catch, finally.  The render of
\* what it sets comes later.
ResumeAnalyze(i) ==
  /\ i \in DOMAIN pending
  /\ pending[i].kind = "analyze" /\ pending[i].settled
  /\ \E o \in { AnalyzeOutcome(pending[i].result) } :
       /\ suggestions' = IF o.failed THEN NoList ELSE List(o.list)
       /\ error' = IF o.failed THEN o.message ELSE error
  /\ isLoadingSuggestions' = FALSE
  /\ pending' = RemoveAt(pending, i)
  /\ UNCHANGED << inputCode, applyingSuggestionIndex, copySuccess, view, timers >>
  /\ UNCHANGED << applyVars, parked, analyzeVars >>

\* A handler that keeps what the user typed while the request was under way.
ResumeApplyKeepingEdits(i) ==
  /\ i \in DOMAIN pending
  /\ pending[i].kind = "apply" /\ pending[i].settled
  /\ \E o \in { ApplyOutcome(pending[i].result) } :
       /\ inputCode' = IF ~o.failed /\ inputCode = pending[i].sent
                       THEN o.modifiedCode ELSE inputCode
       /\ suggestions' = IF o.failed THEN suggestions ELSE NoList
       /\ error' = IF o.failed THEN o.message ELSE error
  /\ applyingSuggestionIndex' = NoIndex
  /\ pending' = RemoveAt(pending, i)
  /\ UNCHANGED << isLoadingSuggestions, copySuccess, view, timers >>
  /\ UNCHANGED << applyVars, parked, analyzeVars >>

\* A handler that clears the suggestions whatever the response.
ResumeApplyClearingSuggestions(i) ==
  /\ i \in DOMAIN pending
  /\ pending[i].kind = "apply" /\ pending[i].settled
  /\ \E o \in { ApplyOutcome(pending[i].result) } :
       /\ inputCode' = IF o.failed THEN inputCode ELSE o.modifiedCode
       /\ suggestions' = NoList
       /\ error' = IF o.failed THEN o.message ELSE error
  /\ applyingSuggestionIndex' = NoIndex
  /\ pending' = RemoveAt(pending, i)
  /\ UNCHANGED << isLoadingSuggestions, copySuccess, view, timers >>
  /\ UNCHANGED << applyVars, parked, analyzeVars >>

\* handleApplySuggestionClick after its await: try, catch, finally.
ResumeApply(i) ==
  /\ i \in DOMAIN pending
  /\ pending[i].kind = "apply" /\ pending[i].settled
  /\ \E o \in { ApplyOutcome(pending[i].result) } :
       /\ inputCode' = IF o.failed THEN inputCode ELSE o.modifiedCode
       /\ suggestions' = IF o.failed THEN suggestions ELSE NoList
       /\ error' = IF o.failed THEN o.message ELSE error
  /\ applyingSuggestionIndex' = NoIndex
  /\ pending' = RemoveAt(pending, i)
  /\ UNCHANGED << isLoadingSuggestions, copySuccess, view, timers >>
  /\ UNCHANGED << applyVars, parked, analyzeVars >>

\* handleCopyClick after its await: each outcome starts a timer.
ResumeCopy(i) ==
  /\ i \in DOMAIN pending
  /\ pending[i].kind = "copy" /\ pending[i].settled
  /\ IF pending[i].result.rejects
     THEN /\ error' = CopyFailed
          /\ timers' = [timers EXCEPT !.error = @ + 1]
          /\ copySuccess' = copySuccess
     ELSE /\ copySuccess' = TRUE
          /\ timers' = [timers EXCEPT !.copySuccess = @ + 1]
          /\ error' = error
  /\ pending' = RemoveAt(pending, i)
  /\ UNCHANGED << inputCode, suggestions, isLoadingSuggestions, applyingSuggestionIndex, view >>
  /\ UNCHANGED << applyVars, parked, analyzeVars >>

\* setTimeout(() => setCopySuccess(false), 2000)
CopySuccessTimer ==
  /\ timers.copySuccess > 0
  /\ copySuccess' = FALSE
  /\ timers' = [timers EXCEPT !.copySuccess = @ - 1]
  /\ UNCHANGED << inputCode, suggestions, isLoadingSuggestions, error,
                  applyingSuggestionIndex, view, pending >>
  /\ UNCHANGED << applyVars, parked, analyzeVars >>

\* setTimeout(() => setError(null), 4000)
ErrorTimer ==
  /\ timers.error > 0
  /\ error' = Null
  /\ timers' = [timers EXCEPT !.error = @ - 1]
  /\ UNCHANGED << inputCode, suggestions, isLoadingSuggestions, copySuccess,
                  applyingSuggestionIndex, view, pending >>
  /\ UNCHANGED << applyVars, parked, analyzeVars >>

\* React renders the state set outside a discrete event.
Render ==
  /\ view # State
  /\ view' = State
  /\ UNCHANGED << inputCode, suggestions, isLoadingSuggestions, error,
                  applyingSuggestionIndex, copySuccess, pending, timers >>
  /\ UNCHANGED << applyVars, parked, analyzeVars >>

\* The page as first rendered.
InitPage ==
  /\ ApplyIdle
  /\ AnalyzeIdle
  /\ inputCode = Snippet
  /\ suggestions = NoList
  /\ isLoadingSuggestions = FALSE
  /\ error = Null
  /\ applyingSuggestionIndex = NoIndex
  /\ copySuccess = FALSE
  /\ view = State
  /\ pending = << >>
  /\ timers = [copySuccess |-> 0, error |-> 0]

NextPage ==
  \/ \E value \in EditorTexts \cup { Null } : HandleEditorChange(value)
  \/ HandleAnalyzeClick
  \/ \E index \in 0..1 : HandleApplySuggestionClick(index)
  \/ HandleCopyClick
  \/ \E i \in 1..MaxPending : Settle(i)
  \/ \E i \in 1..MaxPending : ResumeAnalyze(i)
  \/ \E i \in 1..MaxPending : ResumeApply(i)
  \/ \E i \in 1..MaxPending : ResumeCopy(i)
  \/ CopySuccessTimer
  \/ ErrorTimer
  \/ Render

SpecPage == InitPage /\ [][NextPage]_vars

\* The continuation of a handler runs once its await has settled, and React
\* renders the state it was given.
SpecPageLive ==
  /\ InitPage
  /\ [][NextPage]_vars
  /\ WF_vars(\E i \in 1..MaxPending : ResumeAnalyze(i))
  /\ WF_vars(\E i \in 1..MaxPending : ResumeApply(i))
  /\ WF_vars(Render)

\* ------------------------------------------------- two invocations at once

\* The requests two clients send at the same time: short programs over two
\* statements, an unparseable text, and a request without code.
ConcurrentStatements ==
  { DeclNum("let", "a"),                  \* let a = 1;
    AssignBin("a", Id("a"), "+") }        \* a = a + 1;

ConcurrentSuggestions ==
  { [type |-> "USE_CONST", params |-> Params(StrVal("a"), Absent, Absent, Absent, Absent),
     suggestion |-> NoText],
    [type |-> "USE_OPERATOR_SHORTCUT",
     params |-> Params(Absent, Absent, Absent, StrVal("+="), StrVal("a")),
     suggestion |-> NoText],
    [type |-> "EXTRACT_FUNCTION", params |-> NoParams,
     suggestion |-> Text(<< Word("Rename"), Quoted(<<"a">>), Word("to"), Quoted(<<"b">>) >>)] }

ConcurrentInputs ==
  { [request |-> GoodRequest, code |-> [tree |-> Build(prog), layout |-> "loose"],
     suggestion |-> sug] :
      prog \in SeqsUpTo(ConcurrentStatements, MaxStmts) \ { <<>> },
      sug \in ConcurrentSuggestions }
  \cup
  { [request |-> GoodRequest, code |-> Unparseable, suggestion |-> sug] :
      sug \in { s \in ConcurrentSuggestions : s.type = "USE_CONST" } }
  \cup
  { [request |-> Request("object", "absent", "object", "string"), code |-> NoCode,
     suggestion |-> NoSuggestion] }

\* Everything an invocation of POST holds: the body it read and the variables
\* declared inside the function (with what the model observes of its walk).
\* The module itself declares no variable.
Locals ==
  [request |-> request, code |-> code, suggestion |-> suggestion, pc |-> pc,
   ast |-> ast, queue |-> queue, transformationApplied |-> transformationApplied,
   modifiedCode |-> modifiedCode, response |-> response, visited |-> visited,
   rewrites |-> rewrites, firedTier |-> firedTier, firedAt |-> firedAt,
   generated |-> generated, caught |-> caught]

\* An invocation that has just been called with the request in.
Arrived(in) ==
  [request |-> in.request, code |-> in.code, suggestion |-> in.suggestion, pc |-> "start",
   ast |-> <<>>, queue |-> <<>>, transformationApplied |-> FALSE,
   modifiedCode |-> NoCode, response |-> NoResponse, visited |-> <<>>,
   rewrites |-> 0, firedTier |-> None, firedAt |-> 0,
   generated |-> FALSE, caught |-> {}]

\* A handler whose transformationApplied is declared at module level: the
\* invocation that resumes finds the flag as the other one left it.
SwitchSharingFlag ==
  /\ parked # NoInvocation
  /\ parked' = Locals
  /\ request' = parked.request
  /\ code' = parked.code
  /\ suggestion' = parked.suggestion
  /\ pc' = parked.pc
  /\ ast' = parked.ast
  /\ queue' = parked.queue
  /\ transformationApplied' = transformationApplied
  /\ modifiedCode' = parked.modifiedCode
  /\ response' = parked.response
  /\ visited' = parked.visited
  /\ rewrites' = parked.rewrites
  /\ firedTier' = parked.firedTier
  /\ firedAt' = parked.firedAt
  /\ generated' = parked.generated
  /\ caught' = parked.caught
  /\ UNCHANGED << handler, round, first, elsewhere >>

\* The server leaves one invocation and goes on with the other; each finds
\* its own variables as it left them.
Switch ==
  /\ parked # NoInvocation
  /\ parked' = Locals
  /\ request' = parked.request
  /\ code' = parked.code
  /\ suggestion' = parked.suggestion
  /\ pc' = parked.pc
  /\ ast' = parked.ast
  /\ queue' = parked.queue
  /\ transformationApplied' = parked.transformationApplied
  /\ modifiedCode' = parked.modifiedCode
  /\ response' = parked.response
  /\ visited' = parked.visited
  /\ rewrites' = parked.rewrites
  /\ firedTier' = parked.firedTier
  /\ firedAt' = parked.firedAt
  /\ generated' = parked.generated
  /\ caught' = parked.caught
  /\ UNCHANGED << handler, round, first, elsewhere >>

NextConcurrent == Next \/ Switch

\* Two requests arrive together.
InitConcurrent ==
  /\ InitInvocation
  /\ [request |-> request, code |-> code, suggestion |-> suggestion] \in ConcurrentInputs
  /\ handler = "route.ts"
  /\ \E in \in ConcurrentInputs : parked = Arrived(in)
  /\ AnalyzeIdle
  /\ PageIdle

SpecConcurrent == InitConcurrent /\ [][NextConcurrent]_vars

TypeOK ==
  /\ pc \in { "idle", "start", "traverse", "enter", "finish", "done" }
  /\ request \in { GoodRequest } \cup BadRequests
  /\ code = NoCode \/ code.layout \in Layouts
  /\ modifiedCode = NoCode \/ modifiedCode.layout \in Layouts
  /\ transformationApplied \in BOOLEAN
  /\ rewrites \in Nat
  /\ round \in { 1, 2 }
  /\ response.status \in { 0, 200, 400, 500 }
  /\ parked = NoInvocation \/ parked.pc \in { "start", "traverse", "enter", "finish", "done" }
  /\ anthropic \in BOOLEAN
  /\ analyzePc \in { "idle", "start", "primary", "fallback", "done" }
  /\ Len(calls) <= 2
  /\ analyzeResponse.status \in { 0, 200, 400, 429, 500, 502, 504 }
  /\ inputCode \in EditorTexts \cup { Rewritten(t) : t \in EditorTexts }
  /\ suggestions = NoList \/ suggestions.list \in SuggestionLists
  /\ isLoadingSuggestions \in BOOLEAN
  /\ applyingSuggestionIndex \in { NoIndex, 0, 1 }
  /\ copySuccess \in BOOLEAN
  /\ Len(pending) <= MaxPending
  /\ timers.copySuccess + timers.error <= MaxTimers

\* ------------------------------------------------------------------- claims

\* The tree the request's code parses to, and a handler that answered 200.
Src == Parse(code)
Succeeded == pc = "done" /\ response.status = 200

\* Whether the structural rule selected by suggestion.type accepts node n of
\* the parsed code.
StructuralMatch(n) == TypeAttempt(Src, n, suggestion, handler).applied

\* C1: when the handler answers with transformationApplied = false, the
\* returned modifiedCode is the request's code, layout included, whatever the
\* suggestion's type, params and text.
C1_UnappliedReturnsRequestCode ==
  (Succeeded /\ ~transformationApplied) => modifiedCode = code

\* A request in a layout of its own, with a typed suggestion and a text, for
\* which no rule fired.
C1_Witness ==
  /\ Succeeded /\ ~transformationApplied
  /\ code.layout = "loose"
  /\ suggestion.type = "USE_OPERATOR_SHORTCUT"
  /\ suggestion.suggestion.defined
  /\ Len(visited) = Len(Src)
  /\ modifiedCode = code

\* C2: at most one enter() attempt changes the tree in an invocation, whichever
\* tier made the first change.
C2_AtMostOneRewrite == rewrites <= 1

\* One rewrite happened although the tree it left still holds a node the
\* rule's conditions accept.
C2_Witness ==
  /\ Succeeded /\ rewrites = 1
  /\ \E n \in DOMAIN ast : TypeAttempt(ast, n, suggestion, handler).applied

\* C3: the text fallback changes the tree only when the structural rule
\* selected by suggestion.type accepts no node of the parsed code.
C3_FallbackOnlyWithoutStructuralMatch ==
  firedTier = "REGEX" => ~\E n \in DOMAIN Src : StructuralMatch(n)

\* The fallback renamed at the Program node although a later assignment
\* satisfies the operator-shortcut rule.
C3_Witness ==
  /\ Succeeded /\ firedTier = "REGEX" /\ firedAt = 1
  /\ suggestion.type = "USE_OPERATOR_SHORTCUT"
  /\ \E n \in DOMAIN Src : StructuralMatch(n) /\ n \notin { visited[i] : i \in DOMAIN visited }

\* C7 as stated: every invocation that answers 200 ran the generator, and the
\* returned text is the generator's rendering of the tree.
C7_GeneratorAlwaysInvoked ==
  Succeeded => (generated /\ modifiedCode = Generate(ast))

\* C7, amended: the generator runs exactly when transformationApplied is set;
\* then the returned text is its rendering of the tree, and otherwise the
\* returned text is the request's code and the generator did not run.
C7_GeneratorOnlyAfterMutation ==
  Succeeded =>
    /\ generated <=> transformationApplied
    /\ generated => modifiedCode = Generate(ast)
    /\ ~generated => modifiedCode = code

\* A 200 answer whose text is the generator's rendering of a tree that a
\* structural rule changed.
C7_Witness ==
  /\ Succeeded /\ generated
  /\ modifiedCode = Generate(ast) /\ modifiedCode # code
  /\ firedTier = "TYPE" /\ ast # Src

\* Two declarations of one scope of tree t carry the same name.
BindingsShareName(t) ==
  \E d1, d2 \in DOMAIN t :
    /\ d1 < d2
    /\ IsDeclaration(t, d1) /\ IsDeclaration(t, d2)
    /\ BindingName(t, d1) = BindingName(t, d2)
    /\ BindingScope(t, d1) = BindingScope(t, d2)

\* C4: a RENAME_VARIABLE rename is refused when newName is already bound in
\* the scope where it takes place, so that after a rename no scope holds two
\* bindings of one name.
C4_RenameNeverMergesBindings ==
  (Succeeded /\ suggestion.type = "RENAME_VARIABLE" /\ firedTier = "TYPE") =>
    /\ ~HasBinding(Src, ScopeOf(Src, firedAt), GetParam(suggestion.params, "newName"))
    /\ ~BindingsShareName(ast)

\* The rename of a to b went through in a scope that already declares b.
C4_Witness ==
  /\ Succeeded /\ suggestion.type = "RENAME_VARIABLE" /\ firedTier = "TYPE"
  /\ GetBinding(Src, 1, "a") # 0 /\ GetBinding(Src, 1, "b") # 0
  /\ BindingsShareName(ast)
  /\ modifiedCode = Generate(ast)

\* The let declarators of the parsed code that declare v.
LetDeclarators(v) ==
  { d \in DOMAIN Src :
      /\ Src[d].type = "VariableDeclarator"
      /\ BindingName(Src, d) = v
      /\ Src[Src[d].parent].type = "VariableDeclaration"
      /\ Src[Src[d].parent].op = "let" }

\* An assignment of the parsed code whose target resolves to declaration d.
Reassigned(d) ==
  \E n \in DOMAIN Src :
    /\ Src[n].type = "AssignmentExpression"
    /\ Src[Src[n].children[1]].type = "Identifier"
    /\ Src[Src[n].children[1]].name = BindingName(Src, d)
    /\ GetBinding(Src, ScopeOf(Src, n), BindingName(Src, d)) = d

\* C5: under USE_CONST a declaration's kind changes only from let to const and
\* only for a declarator named params.variableName whose binding is never
\* reassigned; when every such declarator's binding is reassigned the rule
\* does not fire, and the code comes back as sent unless the text fallback fired.
C5_UseConstGuard ==
  (Succeeded /\ suggestion.type = "USE_CONST") =>
    LET v == GetParam(suggestion.params, "variableName")
    IN /\ \A n \in DOMAIN Src :
            (Src[n].type = "VariableDeclaration" /\ ast[n].op # Src[n].op) =>
              /\ Src[n].op = "let" /\ ast[n].op = "const"
              /\ Src[n].children[1] \in LetDeclarators(v)
              /\ ~Reassigned(Src[n].children[1])
              /\ firedTier = "TYPE" /\ firedAt = Src[n].children[1]
       /\ (\A d \in LetDeclarators(v) : Reassigned(d)) =>
            /\ firedTier # "TYPE"
            /\ firedTier = None => modifiedCode = code

\* let became const for a declarator of the name although the program also
\* assigns to that name, in a scope where it resolves to no such declarator.
C5_Witness ==
  /\ Succeeded /\ suggestion.type = "USE_CONST" /\ firedTier = "TYPE"
  /\ Src[Src[firedAt].parent].op = "let" /\ ast[Src[firedAt].parent].op = "const"
  /\ \E n \in DOMAIN Src :
       /\ Src[n].type = "AssignmentExpression"
       /\ Src[Src[n].children[1]].name = GetParam(suggestion.params, "variableName")

\* Whether enter() at node n of the parsed code mutates, by either attempt.
Candidate(n) == EnterResult(Src, n, suggestion, handler, FALSE).applied

\* Some identifier of the parsed code changed its name.
Renamed == \E n \in DOMAIN Src : Src[n].type = "Identifier" /\ ast[n].name # Src[n].name

\* C6: the mutation happens at the first node, in pre-order, that satisfies a
\* rule's conditions (Build numbers the nodes of the parsed code in that
\* order); the nodes entered are exactly those up to it; and the other
\* candidates of a rewrite that is not a rename keep their form.
C6_FirstCandidateInPreOrder ==
  Succeeded =>
    /\ firedAt = 0 => (ast = Src /\ \A n \in DOMAIN Src : ~Candidate(n))
    /\ firedAt # 0 =>
         /\ Candidate(firedAt)
         /\ \A m \in 1..(firedAt - 1) : ~Candidate(m)
         /\ visited = [i \in 1..firedAt |-> i]
         /\ \A m \in DOMAIN Src \ { firedAt } :
              Renamed \/ ast[m] = Src[m] \/ ~Candidate(m)
         /\ rewrites <= 1

\* Two assignments satisfy the operator-shortcut rule: the first was
\* rewritten, the second was not entered and still satisfies it.
C6_Witness ==
  /\ Succeeded /\ suggestion.type = "USE_OPERATOR_SHORTCUT" /\ firedTier = "TYPE"
  /\ Cardinality({ n \in DOMAIN Src : StructuralMatch(n) }) = 2
  /\ \E m \in DOMAIN Src :
       /\ m > firedAt /\ StructuralMatch(m)
       /\ TypeAttempt(ast, m, suggestion, handler).applied
  /\ visited[Len(visited)] = firedAt

\* Identifier m of the parsed code is a property key or a property-access name.
IsPropertyName(m) ==
  LET p == Src[m].parent
  IN \/ Src[p].type = "MemberExpression" /\ Src[p].children[2] = m
     \/ Src[p].type = "ObjectProperty" /\ Src[p].children[1] = m

\* Identifier m of the parsed code denotes the binding declared by d: it is
\* the declared name, or a use of the name that resolves to d from where it
\* stands.
Denotes(m, d) ==
  /\ Src[m].type = "Identifier"
  /\ Src[m].name = BindingName(Src, d)
  /\ \/ m = BindingIdent(Src, d)
     \/ /\ ~IsPropertyName(m)
        /\ GetBinding(Src, ScopeOf(Src, m), Src[m].name) = d

\* C8: after the RENAME_VARIABLE rule fired, the declaration and every
\* reference of the binding oldName resolved to carry newName, and every other
\* node (a same-named identifier of another binding, a property key, a
\* property-access name) is as it was parsed.
C8_RenameCompleteAndPrecise ==
  (Succeeded /\ suggestion.type = "RENAME_VARIABLE" /\ firedTier = "TYPE") =>
    LET oldName == GetParam(suggestion.params, "oldName")
        newName == GetParam(suggestion.params, "newName")
        d == GetBinding(Src, ScopeOf(Src, firedAt), oldName)
    IN /\ DOMAIN ast = DOMAIN Src
       /\ \A m \in DOMAIN Src :
            IF d # 0 /\ Denotes(m, d)
            THEN ast[m] = [Src[m] EXCEPT !.name = newName]
            ELSE ast[m] = Src[m]

\* A rename that changed a reference of the binding and left alone a
\* property-access name of the same spelling.
C8_Witness ==
  /\ Succeeded /\ suggestion.type = "RENAME_VARIABLE" /\ firedTier = "TYPE"
  /\ LET oldName == GetParam(suggestion.params, "oldName")
         newName == GetParam(suggestion.params, "newName")
         d == GetBinding(Src, ScopeOf(Src, firedAt), oldName)
     IN /\ d # 0
        /\ \E m \in DOMAIN Src :
             /\ Denotes(m, d) /\ m # BindingIdent(Src, d)
             /\ ast[m].name = newName
        /\ \E k \in DOMAIN Src :
             /\ Src[k].type = "Identifier" /\ IsPropertyName(k)
             /\ Src[k].name = oldName /\ ast[k] = Src[k]

\* Node n of tree t is v = v <op> rhs with op one of + - * / and compound the
\* compound form of op.
SelfUpdate(t, n, v, compound) ==
  /\ t[n].type = "AssignmentExpression" /\ t[n].op = "="
  /\ LET target == t[n].children[1]
         rhs == t[n].children[2]
     IN /\ t[target].type = "Identifier" /\ t[target].name = v
        /\ t[rhs].type = "BinaryExpression"
        /\ t[rhs].op \in { "+", "-", "*", "/" }
        /\ compound = t[rhs].op \o "="
        /\ t[t[rhs].children[1]].type = "Identifier"
        /\ t[t[rhs].children[1]].name = v

\* C9: the USE_OPERATOR_SHORTCUT rule fires at an entered node exactly when the
\* node is v = v <op> rhs with v = params.variable, op one of + - * / and
\* params.operator the compound form of op; it leaves v <op>= rhs there and
\* nothing else changed; when neither it nor the fallback fired the code comes
\* back as sent.
C9_OperatorShortcutExactly ==
  (Succeeded /\ suggestion.type = "USE_OPERATOR_SHORTCUT") =>
    LET v == GetParam(suggestion.params, "variable")
        operator == GetParam(suggestion.params, "operator")
    IN /\ \A i \in DOMAIN visited :
            (firedTier = "TYPE" /\ firedAt = visited[i])
              <=> SelfUpdate(Src, visited[i], v, operator)
       /\ firedTier = "TYPE" =>
            LET n == firedAt
                rhs == Src[n].children[2]
                rl == Src[rhs].children[1]
                rr == Src[rhs].children[2]
            IN /\ ast[n].op = operator
               /\ ast[n].children = << Src[n].children[1], rr >>
               /\ ast[rr] = [Src[rr] EXCEPT !.parent = n]
               /\ \A m \in DOMAIN Src \ { n, rhs, rl, rr } : ast[m] = Src[m]
       /\ firedTier = None => (ast = Src /\ modifiedCode = code)

\* a = a + 1 was rewritten to a += 1 after an assignment whose left operand
\* is another name was entered and left alone.
C9_Witness ==
  /\ Succeeded /\ suggestion.type = "USE_OPERATOR_SHORTCUT" /\ firedTier = "TYPE"
  /\ GetParam(suggestion.params, "operator") = "+="
  /\ ast[firedAt].op = "+="
  /\ \E i \in DOMAIN visited :
       /\ visited[i] # firedAt
       /\ Src[visited[i]].type = "AssignmentExpression"
       /\ ast[visited[i]] = Src[visited[i]]

\* Node n of tree t is console.log(x) with x the + of one string literal and
\* one identifier, in either order.
LogsConcatenation(t, n) ==
  /\ t[n].type = "CallExpression"
  /\ Len(t[n].children) >= 2
  /\ LET callee == t[n].children[1]
         arg == t[n].children[2]
     IN /\ t[callee].type = "MemberExpression"
        /\ t[t[callee].children[1]].name = "console"
        /\ t[t[callee].children[2]].name = "log"
        /\ t[arg].type = "BinaryExpression" /\ t[arg].op = "+"
        /\ { t[t[arg].children[1]].type, t[t[arg].children[2]].type }
             = { "StringLiteral", "Identifier" }

\* C10: the USE_TEMPLATE_LITERAL rule fires at an entered call exactly when it
\* is console.log of the + of one string literal and one identifier, in either
\* order, and the template's parts then stand in the operands' order.
C10_TemplateLiteralEitherOrder ==
  (Succeeded /\ suggestion.type = "USE_TEMPLATE_LITERAL") =>
    /\ \A i \in DOMAIN visited :
         (firedTier = "TYPE" /\ firedAt = visited[i])
           <=> LogsConcatenation(Src, visited[i])
    /\ firedTier = "TYPE" =>
         LET arg == Src[firedAt].children[2]
             l == Src[arg].children[1]
             r == Src[arg].children[2]
             tl == ast[firedAt].children[2]
             q1 == ast[tl].children[1]
             q2 == ast[tl].children[2]
         IN /\ ast[tl].type = "TemplateLiteral"
            /\ IF Src[l].type = "StringLiteral"
               THEN /\ ast[q1].name = Src[l].name /\ ast[q2].name = ""
                    /\ ast[tl].children[3] = r
               ELSE /\ ast[q1].name = "" /\ ast[q2].name = Src[r].name
                    /\ ast[tl].children[3] = l

\* console.log(a + "s") was entered under the route.ts listing and left as is.
C10_Witness ==
  /\ Succeeded /\ suggestion.type = "USE_TEMPLATE_LITERAL" /\ handler = "route.ts"
  /\ firedTier = None /\ modifiedCode = code
  /\ \E i \in DOMAIN visited :
       /\ LogsConcatenation(Src, visited[i])
       /\ Src[Src[Src[visited[i]].children[2]].children[1]].type = "Identifier"

\* C11: the RENAME_FUNCTION rule fires only at a function declaration named
\* params.oldName, only when the scope enclosing the function has oldName bound
\* and does not have newName bound; it then renames the function's binding in
\* that scope; when no attempt fired the code comes back as sent.
C11_RenameFunctionGuarded ==
  (Succeeded /\ suggestion.type = "RENAME_FUNCTION") =>
    LET oldName == GetParam(suggestion.params, "oldName")
        newName == GetParam(suggestion.params, "newName")
    IN /\ firedTier = "TYPE" =>
            /\ Src[firedAt].type = "FunctionDeclaration"
            /\ BindingName(Src, firedAt) = oldName
            /\ HasBinding(Src, ScopeParent(Src, firedAt), oldName)
            /\ ~HasBinding(Src, ScopeParent(Src, firedAt), newName)
            /\ \A m \in DOMAIN Src :
                 IF Denotes(m, GetBinding(Src, ScopeParent(Src, firedAt), oldName))
                 THEN ast[m] = [Src[m] EXCEPT !.name = newName]
                 ELSE ast[m] = Src[m]
       /\ firedTier = None => (ast = Src /\ modifiedCode = code)

\* The function f was renamed to a in a scope that declares a variable a.
C11_Witness ==
  /\ Succeeded /\ suggestion.type = "RENAME_FUNCTION" /\ firedTier = "TYPE"
  /\ GetParam(suggestion.params, "newName") = "a"
  /\ GetBinding(Src, ScopeParent(Src, firedAt), "a") # 0
  /\ BindingName(ast, firedAt) = "a"
  /\ BindingsShareName(ast)

\* The name the type tag asks to rename as a variable, and what the text's
\* variable-rename pattern captured.
TypeRenameTarget ==
  IF /\ suggestion.type = "RENAME_VARIABLE"
     /\ Truthy(GetParam(suggestion.params, "oldName"))
     /\ Truthy(GetParam(suggestion.params, "newName"))
  THEN GetParam(suggestion.params, "oldName")
  ELSE None

TextRenameMatch ==
  IF suggestion.suggestion.defined
  THEN VariableRenameMatch(suggestion.suggestion.tokens)
  ELSE NoMatch

\* name is declared by a function declaration of the parsed code, and by no
\* variable declaration.
FunctionName(name) ==
  /\ \E d \in DOMAIN Src : Src[d].type = "FunctionDeclaration" /\ BindingName(Src, d) = name
  /\ ~\E d \in DOMAIN Src : Src[d].type = "VariableDeclarator" /\ BindingName(Src, d) = name

\* An identifier that denotes a function declaration's binding changed.
FunctionIdentifierChanged ==
  \E d \in DOMAIN Src, m \in DOMAIN Src :
    /\ Src[d].type = "FunctionDeclaration"
    /\ Denotes(m, d)
    /\ ast[m] # Src[m]

\* C12: a variable rename, asked for by the RENAME_VARIABLE tag or by the
\* text's Rename pattern, never fires for a name whose binding is a function
\* declaration and never changes an identifier of such a binding; when every
\* name the request asks to rename is a function's, the tree stays as parsed
\* and the code comes back as sent.
C12_FunctionsNeverRenamedAsVariables ==
  Succeeded =>
    /\ (firedTier = "TYPE" /\ suggestion.type = "RENAME_VARIABLE") =>
         /\ ~FunctionName(TypeRenameTarget)
         /\ ~FunctionIdentifierChanged
    /\ (firedTier = "REGEX" /\ TextRenameMatch.matched) =>
         /\ ~FunctionName(TextRenameMatch.g1)
         /\ ~FunctionIdentifierChanged
    /\ ( /\ suggestion.type \in { "RENAME_VARIABLE", "EXTRACT_FUNCTION" }
         /\ TypeRenameTarget # None \/ TextRenameMatch.matched
         /\ TypeRenameTarget # None => FunctionName(TypeRenameTarget)
         /\ suggestion.suggestion.defined =>
              (TextRenameMatch.matched /\ FunctionName(TextRenameMatch.g1)) )
       => (firedTier = None /\ ast = Src /\ modifiedCode = code)

\* Both the tag and the text asked to rename the function f as a variable;
\* every node was entered, f's declaration included, and nothing changed.
C12_Witness ==
  /\ Succeeded
  /\ TypeRenameTarget = "f" /\ TextRenameMatch.matched /\ TextRenameMatch.g1 = "f"
  /\ FunctionName("f")
  /\ Len(visited) = Len(Src)
  /\ \E i \in DOMAIN visited : Src[visited[i]].type = "FunctionDeclaration"
  /\ ast = Src /\ modifiedCode = code

\* The keys named k of the object literal a declaration binds to v, and the
\* property names of the accesses v.k, in the parsed code.
ObjectKeys(v, k) ==
  { m \in DOMAIN Src :
      /\ Src[m].type = "Identifier" /\ Src[m].name = k
      /\ Src[Src[m].parent].type = "ObjectProperty"
      /\ Src[Src[m].parent].children[1] = m
      /\ LET obj == Src[Src[m].parent].parent
         IN /\ Src[obj].type = "ObjectExpression"
            /\ Src[Src[obj].parent].type = "VariableDeclarator"
            /\ BindingName(Src, Src[obj].parent) = v }

PropertyUses(v, k) ==
  { m \in DOMAIN Src :
      /\ Src[m].type = "Identifier" /\ Src[m].name = k
      /\ Src[Src[m].parent].type = "MemberExpression"
      /\ Src[Src[m].parent].children[2] = m
      /\ IsIdentifierNamed(Src, Src[Src[m].parent].children[1], v) }

\* C13: under RENAME_VARIABLE with params oldName, newName and variableName,
\* when oldName is a key of the object bound to variableName and no variable is
\* named oldName, the key and the property name of every access
\* variableName.oldName carry newName after the invocation.
C13_PropertyRenameAtDefinitionAndUses ==
  (Succeeded /\ suggestion.type = "RENAME_VARIABLE") =>
    LET v == GetParam(suggestion.params, "variableName")
        oldName == GetParam(suggestion.params, "oldName")
        newName == GetParam(suggestion.params, "newName")
    IN ( /\ Truthy(v) /\ Truthy(oldName) /\ Truthy(newName)
         /\ ObjectKeys(v, oldName) # {}
         /\ ~\E d \in DOMAIN Src : IsDeclaration(Src, d) /\ BindingName(Src, d) = oldName )
       => \A m \in ObjectKeys(v, oldName) \cup PropertyUses(v, oldName) :
            ast[m].name = newName

\* The key a of the object b and the access b.a were entered and left as they
\* were; the code came back as sent.
C13_Witness ==
  /\ Succeeded /\ suggestion.type = "RENAME_VARIABLE"
  /\ GetParam(suggestion.params, "variableName") = "b"
  /\ ObjectKeys("b", "a") # {} /\ PropertyUses("b", "a") # {}
  /\ ~\E d \in DOMAIN Src : IsDeclaration(Src, d) /\ BindingName(Src, d) = "a"
  /\ Len(visited) = Len(Src)
  /\ ast = Src /\ modifiedCode = code

\* The variable declarators of the parsed code that declare name.
VariableDeclarators(name) ==
  { d \in DOMAIN Src : Src[d].type = "VariableDeclarator" /\ BindingName(Src, d) = name }

\* C14: with a type attempt 1 has no branch for and a text that matches the
\* Rename pattern with names a and b, a being declared as a variable, the
\* fallback fires: the declaration and the references of one binding of a
\* carry b, every other node is as parsed, and the returned code is the
\* generator's rendering of the renamed tree.
C14_FallbackRenamesVariable ==
  ( /\ Succeeded
    /\ suggestion.type \notin RecognizedTypes
    /\ TextRenameMatch.matched
    /\ VariableDeclarators(TextRenameMatch.g1) # {} )
  => /\ firedTier = "REGEX"
     /\ \E d \in VariableDeclarators(TextRenameMatch.g1) :
          \A m \in DOMAIN Src :
            IF Denotes(m, d)
            THEN ast[m] = [Src[m] EXCEPT !.name = TextRenameMatch.g2]
            ELSE ast[m] = Src[m]
     /\ modifiedCode = Generate(ast)
     /\ modifiedCode.tree # Src

\* The only declaration of a sits in a nested block: the fallback passed the
\* Program node, fired where the block's scope begins, and the answer carries b.
C14_Witness ==
  /\ Succeeded /\ suggestion.type = "EXTRACT_FUNCTION"
  /\ TextRenameMatch.matched /\ TextRenameMatch.g1 = "a" /\ TextRenameMatch.g2 = "b"
  /\ firedTier = "REGEX" /\ firedAt > 1
  /\ \E d \in VariableDeclarators("a") :
       /\ BindingName(ast, d) = "b"
       /\ BindingName(modifiedCode.tree, d) = "b"
  /\ \E m \in DOMAIN Src : Src[m].name = "a" /\ ast[m].name = "a"

\* What the structural rules alone make of the parsed code: the rewrite of the
\* first node, in pre-order, that the rule selected by suggestion.type accepts;
\* the parsed tree when it accepts none.
StructuralMatches == { n \in DOMAIN Src : StructuralMatch(n) }

StructuralResult ==
  IF StructuralMatches = {} THEN Src
  ELSE TypeAttempt(Src, Min(StructuralMatches), suggestion, handler).ast

\* The handler answered 500 for a reason that lies in the code or in the
\* generator: unparseable text, a duplicate declaration, a generator failure.
FailedOnCode ==
  /\ response.status = 500
  /\ \/ ParseThrows(code)
     \/ DuplicateDeclaration(Src)
     \/ response = TransformError("generator failed")

\* C15: for a suggestion without the free-form text the fallback never
\* mutates and never makes the invocation fail; the structural rule is tried
\* at every node entered, and the answer is what the structural rules alone
\* produce: the rendering of the first structural match's rewrite, or the
\* request's code when there is none.
C15_NoTextSkipsFallback ==
  (pc = "done" /\ request = GoodRequest /\ ~suggestion.suggestion.defined) =>
    /\ firedTier # "REGEX"
    /\ Succeeded \/ FailedOnCode
    /\ Succeeded =>
         /\ ast = StructuralResult
         /\ IF StructuralMatches = {}
            THEN /\ visited = [i \in 1..Len(Src) |-> i]
                 /\ modifiedCode = code
            ELSE /\ visited = [i \in 1..Min(StructuralMatches) |-> i]
                 /\ firedTier = "TYPE" /\ firedAt = Min(StructuralMatches)
                 /\ modifiedCode = Generate(StructuralResult)

\* Without a text, attempt 2 threw at the Program node and at the nodes after
\* it, each time into its catch; the structural rule then fired further down
\* and the answer is its rewrite.
C15_Witness ==
  /\ Succeeded /\ ~suggestion.suggestion.defined
  /\ firedTier = "TYPE" /\ firedAt > 2
  /\ \A n \in 1..(firedAt - 1) : [at |-> n, tier |-> "REGEX"] \in caught
  /\ modifiedCode = Generate(StructuralResult)
  /\ modifiedCode.tree # Src

\* The second request is the answer to a RENAME_VARIABLE request whose
\* structural rule renamed something, sent again with the suggestion; its
\* text, if any, asks for the same rename.
RenameResubmitted ==
  /\ round = 2
  /\ suggestion.type = "RENAME_VARIABLE"
  /\ first.tier = "TYPE"
  /\ first.code.tree # code.tree
  /\ suggestion.suggestion.defined =>
       /\ TextRenameMatch.matched
       /\ TextRenameMatch.g1 = GetParam(suggestion.params, "oldName")
       /\ TextRenameMatch.g2 = GetParam(suggestion.params, "newName")

\* C16: when the output of a rename of oldName to newName is submitted again
\* with the same suggestion and no declaration of the submitted code is named
\* oldName any more, the handler answers 200 and modifiedCode is the submitted
\* code.
C16_ReapplyingRenameIsNoOp ==
  ( /\ RenameResubmitted /\ pc = "done"
    /\ ~\E d \in DOMAIN Src :
          IsDeclaration(Src, d) /\ BindingName(Src, d) = GetParam(suggestion.params, "oldName") )
  => (response.status = 200 /\ modifiedCode = code)

\* The renamed code, submitted again, was refused: the rename had put two
\* declarations of one name into a scope.
C16_Witness ==
  /\ RenameResubmitted /\ pc = "done"
  /\ ~\E d \in DOMAIN Src :
        IsDeclaration(Src, d) /\ BindingName(Src, d) = GetParam(suggestion.params, "oldName")
  /\ ~DuplicateDeclaration(first.code.tree)
  /\ DuplicateDeclaration(Src)
  /\ response.status = 500

\* The params keys the structural rule of a type reads.
RequiredParams(type) ==
  CASE type = "USE_CONST" -> { "variableName" }
    [] type \in { "RENAME_VARIABLE", "RENAME_FUNCTION" } -> { "oldName", "newName" }
    [] type = "USE_OPERATOR_SHORTCUT" -> { "operator", "variable" }
    [] OTHER -> {}

\* No structural rule can answer the suggestion: its type is not a recognized
\* tag, or a key its rule reads is missing or not a string.
Unanswerable ==
  \/ suggestion.type \notin RecognizedTypes
  \/ \E k \in RequiredParams(suggestion.type) : suggestion.params[k].t # "string"

\* C17: a suggestion no structural rule can answer makes attempt 1 neither
\* mutate nor throw at any node, and is no reason for an error response; when
\* the fallback does not fire either, the answer is the request's code.
C17_UnanswerableSuggestionIsNoOp ==
  (pc = "done" /\ request = GoodRequest /\ Unanswerable) =>
    /\ firedTier # "TYPE"
    /\ \A c \in caught : c.tier # "TYPE"
    /\ Succeeded \/ FailedOnCode
    /\ (Succeeded /\ firedTier = None) => (ast = Src /\ modifiedCode = code)

\* A rename whose newName is a number: the variable a is declared, every node
\* was entered, and the code came back as sent.
C17_Witness ==
  /\ Succeeded /\ suggestion.type = "RENAME_VARIABLE"
  /\ suggestion.params["newName"].t = "number"
  /\ VariableDeclarators(GetParam(suggestion.params, "oldName")) # {}
  /\ Len(visited) = Len(Src)
  /\ modifiedCode = code

\* C18: an exception thrown by a rule at a node is caught in enter() and is
\* never the reason of a failed response; after attempt 1 threw at a node the
\* fallback was attempted at that node (when it throws there, for want of a
\* text, its exception was caught there as well); and the walk went on: the
\* nodes entered are all nodes up to the one that fired, or all nodes.
C18_RuleErrorsAreRecoveredLocally ==
  (request = GoodRequest /\ caught # {}) =>
    /\ pc = "done" => (Succeeded \/ response = TransformError("generator failed"))
    /\ \A c \in caught :
         (c.tier = "TYPE" /\ RegexAttempt(Src, c.at, suggestion).threw) =>
           [at |-> c.at, tier |-> "REGEX"] \in caught
    /\ pc \in { "finish", "done" } =>
         /\ visited = [i \in 1..(IF firedAt = 0 THEN Len(Src) ELSE firedAt) |-> i]
         /\ \A c \in caught : c.at \in 1..Len(visited)

\* The template rule threw at the first console.log (its string cannot be a
\* template's raw text), the fallback threw there too for want of a text, and
\* the rule rewrote a later console.log.
C18_Witness ==
  /\ Succeeded
  /\ firedTier = "TYPE"
  /\ \E c \in caught :
       /\ c.tier = "TYPE" /\ c.at < firedAt
       /\ [at |-> c.at, tier |-> "REGEX"] \in caught
       /\ ast[c.at] = Src[c.at]
  /\ modifiedCode = Generate(ast) /\ modifiedCode.tree # Src

\* C19: a request of a bad shape (code missing, empty or not a string;
\* suggestion missing, or its type not a string; a body that is not an object)
\* is answered with status 400 and an error, and nothing was parsed or
\* traversed for it.
C19_BadShapeAnswered400 ==
  (pc = "done" /\ request \in BadRequests) =>
    /\ response.status = 400 /\ response.error # ""
    /\ response.modifiedCode = NoCode
    /\ ast = <<>> /\ visited = <<>> /\ modifiedCode = NoCode

\* The body null was answered 500 by the outer catch.
C19_Witness ==
  /\ pc = "done" /\ request.json = "null"
  /\ response.status = 500
  /\ ast = <<>> /\ visited = <<>>

\* C20: when the parser or the generator throws the response has status 500
\* and an error and carries no modifiedCode; and every response is a 200 with
\* a text as modifiedCode, a 400 or a 500, the two last without modifiedCode.
C20_FailuresCarryNoOutput ==
  pc = "done" =>
    /\ response.status \in { 200, 400, 500 }
    /\ response.status = 200 =>
         /\ response.modifiedCode # NoCode
         /\ response.modifiedCode \in { code, Generate(ast) }
         /\ response.error = ""
    /\ response.status # 200 =>
         (response.modifiedCode = NoCode /\ response.error # "")
    /\ (request = GoodRequest /\ ParseThrows(code)) =>
         (response.status = 500 /\ visited = <<>>)
    /\ (transformationApplied /\ ~generated) => response.status = 500

\* The generator threw after a rule had rewritten the tree: the response is a
\* 500 without modifiedCode, although the tree differs from the parsed one.
C20_Witness ==
  /\ pc = "done" /\ request = GoodRequest
  /\ transformationApplied /\ ~generated /\ ast # Src
  /\ response.status = 500 /\ response.modifiedCode = NoCode

\* ---- C21

\* The walk of one invocation that nothing interrupts: the tree, the flag and
\* whether an exception left enter(), from the nodes q still to be entered.
RECURSIVE WalkAlone(_, _, _, _, _)
WalkAlone(tree, q, flag, sug, hd) ==
  IF q = <<>> THEN [ast |-> tree, applied |-> flag, escaped |-> FALSE]
  ELSE LET r == EnterResult(tree, Head(q), sug, hd, flag)
       IN IF r.escaped \/ r.stop
          THEN [ast |-> r.ast, applied |-> r.applied, escaped |-> r.escaped]
          ELSE WalkAlone(r.ast,
                         IF r.ast = tree THEN Tail(q) ELSE NodesAfter(r.ast, Head(q)),
                         r.applied, sug, hd)

\* The responses an invocation can return when it is the only one running
\* (two when the generator is called, which may fail).
AloneResponses(req, text, sug, hd) ==
  IF Validate(req) # NoResponse THEN { Validate(req) }
  ELSE IF ParseThrows(text) THEN { TransformError("Unterminated string constant") }
  ELSE IF DuplicateDeclaration(Parse(text)) THEN { TransformError("Duplicate declaration") }
  ELSE LET w == WalkAlone(Parse(text), PreOrder(Parse(text)), FALSE, sug, hd)
       IN IF w.escaped THEN { TransformError("Cannot read properties of undefined") }
          ELSE IF w.applied
          THEN { CodeResponse(Generate(w.ast)), TransformError("generator failed") }
          ELSE { CodeResponse(text) }

\* C21: whatever the interleaving of two invocations, each one that has
\* returned has returned a response it returns when it runs alone on its own
\* request.
C21_ConcurrentRequestsIndependent ==
  /\ pc = "done" => response \in AloneResponses(request, code, suggestion, handler)
  /\ parked.pc = "done" =>
       parked.response \in AloneResponses(parked.request, parked.code, parked.suggestion, handler)

\* One invocation has returned a rewrite while the other, which began its
\* walk before, is still in the middle of it with its own flag unset.
C21_Witness ==
  /\ pc = "done" /\ response.status = 200
  /\ transformationApplied /\ response.modifiedCode # code
  /\ parked.pc = "enter" /\ Len(parked.visited) >= 1
  /\ ~parked.transformationApplied

\* ---- C22

\* The last model call of the request failed: the upstream service did not
\* deliver suggestions.
UpstreamFailed ==
  /\ analyzePc = "done"
  /\ calls # << >>
  /\ ~calls[Len(calls)].result.ok

\* C22 as stated: every failure of the upstream AI service is answered 502.
C22_UpstreamFailureAnswered502 ==
  UpstreamFailed => analyzeResponse.status = 502

\* C22 as amended: a failure of the fallback call after an overloaded primary
\* is answered 502; a primary failure that is no overload is answered 500 when
\* its message names an invalid model or parameter, else 429 when it names
\* quota or billing, else 504 when it names ENOTFOUND or a connection error,
\* and 502 otherwise (a response-format error included).  No upstream failure
\* is answered 200.
C22_UpstreamFailureStatusByKind ==
  UpstreamFailed =>
    LET failure == calls[Len(calls)].result
        names(fs) == failure.isError /\ failure.message \cap fs # {}
    IN analyzeResponse.status =
         IF Len(calls) = 2 THEN 502
         ELSE IF names({ "invalid_parameter_error", "model is invalid", "Invalid model" }) THEN 500
         ELSE IF names({ "quota", "billing" }) THEN 429
         ELSE IF names({ "ENOTFOUND", "Connection error" }) THEN 504
         ELSE 502

\* The primary call failed on a quota and the request was answered 429.
C22_Witness ==
  /\ UpstreamFailed
  /\ Len(calls) = 1
  /\ calls[1].result.message = { "quota" }
  /\ analyzeResponse.status = 429

\* ---- C23

\* C23: the fallback model is called at most once, as the second call of the
\* request, and only after the primary call threw an Error whose message
\* contains '529'; any other primary outcome ends the request after one
\* call, a failure with an error response.
C23_FallbackOnlyAfterOverload ==
  /\ Len(calls) <= 2
  /\ \A i \in DOMAIN calls : calls[i].model = FALLBACK_MODEL <=> i = 2
  /\ Len(calls) = 2 =>
       /\ ~calls[1].result.ok
       /\ calls[1].result.isError
       /\ "529" \in calls[1].result.message
  /\ (calls # << >> /\ (calls[1].result.ok \/ "529" \notin calls[1].result.message)) =>
       /\ analyzePc = "done"
       /\ Len(calls) = 1
       /\ calls[1].result.ok <=> analyzeResponse.status = 200
       /\ ~calls[1].result.ok => analyzeResponse.status >= 400

\* The fallback was called after an overloaded primary and delivered.
C23_Witness ==
  /\ analyzePc = "done"
  /\ Len(calls) = 2
  /\ calls[1].result.message = { "529" }
  /\ calls[2].model = FALLBACK_MODEL
  /\ calls[2].result.ok
  /\ analyzeResponse.status = 200

\* ---- C24

\* What the three patterns match in the request's text.
TextMatches ==
  [variable |-> VariableRenameMatch(suggestion.suggestion.tokens),
   function |-> FunctionRenameMatch(suggestion.suggestion.tokens),
   operator |-> OperatorShortcutMatch(suggestion.suggestion.tokens)]

\* Every node that changed is an identifier that went from one name to another.
OnlyRenamed(from, to) ==
  \A m \in DOMAIN Src :
    ast[m] # Src[m] =>
      /\ Src[m].type = "Identifier"
      /\ Src[m].name = from
      /\ ast[m] = [Src[m] EXCEPT !.name = to]

\* C24: when the fallback fired, what it did is the mutation of the first
\* pattern, in the order rename-variable, rename-function, operator-shortcut,
\* that the text matches, and that mutation applies at the node where it
\* fired: a text that matches the Rename pattern never renames a function nor
\* shortens an assignment, a text that matches the function pattern and not
\* the Rename pattern never shortens an assignment.
C24_FirstMatchingPatternOnly ==
  (suggestion.suggestion.defined /\ firedTier = "REGEX") =>
    LET tm == TextMatches
    IN IF tm.variable.matched
       THEN /\ RenameVariableAt(Src, firedAt, tm.variable.g1, tm.variable.g2).applied
            /\ OnlyRenamed(tm.variable.g1, tm.variable.g2)
            /\ ~FunctionIdentifierChanged
       ELSE IF tm.function.matched
       THEN /\ RenameFunctionAt(Src, firedAt, tm.function.g1, tm.function.g2).applied
            /\ OnlyRenamed(tm.function.g1, tm.function.g2)
       ELSE /\ tm.operator.matched
            /\ OperatorShortcutAt(Src, firedAt, tm.operator.g2, tm.operator.g1).applied
            /\ \A m \in DOMAIN Src : ast[m].type = "Identifier" => ast[m] = Src[m]

\* The text matches the Rename pattern and the function pattern; the variable
\* it names is bound nowhere; the declaration of the function it names was
\* entered, where the function rename would apply, and the code came back as
\* sent.
C24_Witness ==
  /\ Succeeded
  /\ suggestion.suggestion.defined
  /\ TextMatches.variable.matched /\ TextMatches.function.matched
  /\ \E i \in DOMAIN visited :
       RenameFunctionAt(Src, visited[i], TextMatches.function.g1, TextMatches.function.g2).applied
  /\ firedTier = None
  /\ modifiedCode = code

\* ---- C25

\* The declarations whose qualifier the request changed.
RewrittenDeclarations ==
  { n \in DOMAIN Src : Src[n].type = "VariableDeclaration" /\ ast[n].op # Src[n].op }

\* The declarators of declaration n.
DeclaratorsOf(n) ==
  { d \in DOMAIN Src : Src[d].type = "VariableDeclarator" /\ Src[d].parent = n }

\* C25: after a successful USE_CONST no declarator of the rewritten
\* declaration, the one named params.variableName or a sibling of it, declares
\* a variable that the program assigns to.
C25_NoConstIsReassigned ==
  (Succeeded /\ suggestion.type = "USE_CONST" /\ firedTier = "TYPE") =>
    \A n \in RewrittenDeclarations : \A d \in DeclaratorsOf(n) : ~Reassigned(d)

\* USE_CONST fired for one variable of a declaration of two, and the answer
\* declares both const.
C25_Witness ==
  /\ Succeeded /\ suggestion.type = "USE_CONST" /\ firedTier = "TYPE"
  /\ \E n \in RewrittenDeclarations :
       /\ Cardinality(DeclaratorsOf(n)) = 2
       /\ ast[n].op = "const"
       /\ response.modifiedCode = Generate(ast)

\* ---- C26

\* The handlers of one kind that wait for their request or have its response
\* in hand.
InFlight(kind) == { i \in DOMAIN pending : pending[i].kind = kind }

\* C26: at most one analyze request and at most one apply request is under
\* way, never one of each, and isLoadingSuggestions is never true while
\* applyingSuggestionIndex is not null.
C26_OneRequestAtATime ==
  /\ Cardinality(InFlight("analyze")) + Cardinality(InFlight("apply")) <= 1
  /\ ~(isLoadingSuggestions /\ applyingSuggestionIndex # NoIndex)

\* The fix of the second suggestion is being applied, its request not yet
\* answered, and the page shows the Apply Fix button of the first enabled.
C26_Witness ==
  /\ \E i \in InFlight("apply") : pending[i].index = 1 /\ ~pending[i].settled
  /\ applyingSuggestionIndex = 1
  /\ ApplyEnabled(view, 0)

\* ---- C27

\* The step in which the handler suspended as pending[i] returns.
Returns(i) == pending[i].settled /\ pending' = RemoveAt(pending, i)

\* The response is OK and its body has a string modifiedCode.
ApplySucceeded(res) == ~res.rejects /\ res.ok /\ res.json /\ res.modifiedCode # Null

\* C27: when the apply handler returns with a successful response, the editor
\* content becomes the response's modifiedCode, which the endpoint computed
\* from the content sent at click time, whatever the content is by then, and
\* the suggestions become null.
C27_ApplyOverwritesEditor ==
  [][\A i \in DOMAIN pending :
       (pending[i].kind = "apply" /\ Returns(i) /\ ApplySucceeded(pending[i].result)) =>
         /\ inputCode' = pending[i].result.modifiedCode
         /\ inputCode' \in { pending[i].sent, Rewritten(pending[i].sent) }
         /\ suggestions' = NoList]_vars

\* The apply handler has just returned (the page still shows it applying): the
\* editor content is the rewrite of the snippet although the user had emptied
\* the editor meanwhile, and the suggestions are gone.
C27_Witness ==
  /\ inputCode = Rewritten(Snippet)
  /\ view.inputCode = ""
  /\ view.applyingSuggestionIndex # NoIndex /\ applyingSuggestionIndex = NoIndex
  /\ suggestions = NoList /\ ~view.suggestions.null

\* ---- C28

\* A response the apply handler takes for a failure, and one the analyze
\* handler does.
ApplyFailed(res) == res.rejects \/ ~res.ok \/ ~res.json \/ res.modifiedCode = Null
AnalyzeFailed(res) == res.rejects \/ ~res.ok \/ ~res.json

\* C28: when the apply handler returns from a failure, the editor content and
\* the suggestions stay as they are and error is set to a message; when the
\* analyze handler returns from a failure, error is set to a message, the
\* suggestions are null and the editor content stays as it is.
C28_FailureLeavesEditorAlone ==
  [][\A i \in DOMAIN pending :
       /\ (pending[i].kind = "apply" /\ Returns(i) /\ ApplyFailed(pending[i].result)) =>
            /\ inputCode' = inputCode
            /\ suggestions' = suggestions
            /\ error' \notin { Null, "" }
       /\ (pending[i].kind = "analyze" /\ Returns(i) /\ AnalyzeFailed(pending[i].result)) =>
            /\ inputCode' = inputCode
            /\ suggestions' = NoList
            /\ error' \notin { Null, "" }]_vars

\* The apply handler has just returned from a response without modifiedCode:
\* the message is set, the suggestions are still there, and the editor holds
\* what the user typed while the request was under way.
C28_Witness ==
  /\ error = "Invalid response received from apply API."
  /\ ~suggestions.null
  /\ view.applyingSuggestionIndex # NoIndex /\ applyingSuggestionIndex = NoIndex
  /\ inputCode = " "

\* ---- C29

\* The page accepts Analyze and Apply Fix: no flag is set, in the state and
\* in what is rendered.
Accepting ==
  /\ ~isLoadingSuggestions /\ applyingSuggestionIndex = NoIndex
  /\ ~view.isLoadingSuggestions /\ view.applyingSuggestionIndex = NoIndex

\* C29: once the fetch of an analyze or apply request has settled, with
\* whatever outcome, the handler's flag is reset and the page comes to accept
\* Analyze and Apply Fix again.
C29_FlagsAreReset ==
  /\ (\E i \in InFlight("analyze") : pending[i].settled) ~> ~isLoadingSuggestions
  /\ (\E i \in InFlight("apply") : pending[i].settled) ~> (applyingSuggestionIndex = NoIndex)
  /\ (\E i \in InFlight("analyze") \cup InFlight("apply") : pending[i].settled) ~> Accepting

\* The analyze handler has just returned from a fetch that was rejected: the
\* flag is reset while the page still shows it loading.
C29_Witness ==
  /\ error = "Failed to fetch"
  /\ ~isLoadingSuggestions /\ view.isLoadingSuggestions
  /\ InFlight("analyze") = {}

\* ---- C30

\* C30: the timer of a failed copy leaves alone a message that is not the
\* copy failure's.
C30_TimerClearsOnlyCopyFailure ==
  [][(timers'.error = timers.error - 1 /\ error \notin { Null, CopyFailed }) =>
       error' = error]_vars

\* The timer of a failed copy is running and error holds the message of an
\* analyze that failed after the copy.
C30_Witness ==
  /\ timers.error > 0
  /\ error = "HTTP error! Status: 500"
====
